---- MODULE Spec2Model ----
(***************************************************************************)
(* A model of dash-tailwindcss-plugin: the build gate of the plugin, the   *)
(* Node.js acquisition of NodeManager and the lifecycle driver             *)
(* TailwindCommand (src/dash_tailwindcss_plugin/utils.py).                 *)
(*                                                                         *)
(* One set of variables describes the process and its surroundings; each   *)
(* component has its own specification (SpecGate, SpecNode, SpecTw) that   *)
(* moves the variables of that component and keeps the others fixed.       *)
(* SpecRun is the plugin and the CLI driving a whole run                   *)
(* (src/dash_tailwindcss_plugin/plugin.py, cli.py).                        *)
(***************************************************************************)
EXTENDS Integers, Sequences, FiniteSets, TLC

VARIABLES
    now,      \* time.time(), in whole seconds
    fs,       \* the working directory: path -> file (or Absent)
    plugin,   \* the fields of _TailwindCSSPlugin the build gate reads
    host,     \* platform.system(), platform.machine() and `node` on PATH
    cache,    \* <package>/.nodejs_cache: the directory and the files in it
    nm,       \* the fields of the NodeManager
    tw,       \* the fields of the TailwindCommand
    ret,      \* what the last call returned or raised
    eff,      \* what the last call did: requests, extractions, writes, log lines
    job,      \* the build or watch run of the plugin or the CLI: its position
    procs     \* two processes inside download_nodejs at once: their positions

vars == <<now, fs, plugin, host, cache, nm, tw, ret, eff, job, procs>>

----------------------------------------------------------------------------
(* Bounds of the model. *)

\* the clock runs from 0 to MaxTime
MaxTime == 4
\* the staleness thresholds tried are 0..MaxThreshold
MaxThreshold == 3
\* a behaviour holds at most MaxRuns runs of the plugin or of the CLI
MaxRuns == 2
\* the clock of a behaviour of runs reads 0..RunTime
RunTime == 2
\* the notices of the process are counted up to MaxNotices
MaxNotices == 2

----------------------------------------------------------------------------
(* Values shared by the components. *)

Absent == [exists |-> FALSE]
File(data, mtime) == [exists |-> TRUE, data |-> data, mtime |-> mtime]
Exists(f, p) == f[p].exists

NoCall == [op |-> "none"]
NoEffects == [net |-> 0, extracted |-> 0, mkdirs |-> 0, removed |-> 0,
              chmods |-> 0, writes |-> 0, runs |-> <<>>, log |-> <<>>,
              failed |-> {}, url |-> <<>>]

\* the paths of the working directory the model follows
OutputCss == "tailwind.css"
InputCss == "tailwind_input.css"
ConfigJs == "tailwind.config.js"
PackageJson == "package.json"
PackageLock == "package-lock.json"
NodeModules == "node_modules"
\* an output stylesheet kept inside the directory of the dependencies
NestedOutput == "node_modules/tailwind.css"
WorkPaths == {OutputCss, InputCss, ConfigJs, PackageJson, PackageLock, NodeModules,
              NestedOutput}
\* the path p lies inside the directory dir
Inside(p, dir) == p = NestedOutput /\ dir = NodeModules

EmptyDir == [p \in WorkPaths |-> Absent]

\* Python values: a record with the type in t
PyStr(s) == [t |-> "str", s |-> s, n |-> 0, b |-> FALSE, items |-> <<>>]
PyBool(b) == [t |-> "bool", s |-> "", n |-> 0, b |-> b, items |-> <<>>]
PyInt(n) == [t |-> "int", s |-> "", n |-> n, b |-> FALSE, items |-> <<>>]
\* a float, held as the text str() gives for it
PyFloat(s) == [t |-> "float", s |-> s, n |-> 0, b |-> FALSE, items |-> <<>>]
PyNone == [t |-> "NoneType", s |-> "", n |-> 0, b |-> FALSE, items |-> <<>>]
PyList(items) == [t |-> "list", s |-> "", n |-> 0, b |-> FALSE, items |-> items]
PyDict(items) == [t |-> "dict", s |-> "", n |-> 0, b |-> FALSE, items |-> items]

\* values of the variables a specification does not move
IdlePlugin == [output_css_path |-> OutputCss, skip_build_if_recent |-> TRUE,
               skip_build_time_threshold |-> 0]
IdleHost == [system |-> "Linux", machine |-> "x86_64", node |-> "none", notices |-> 0]
EmptyFiles == [q \in {} |-> [x |-> FALSE, whole |-> FALSE]]
IdleCache == [dir |-> FALSE, files |-> EmptyFiles]
IdleNm == [download_node |-> FALSE, node_version |-> "18.17.0", is_cli |-> FALSE,
           log_init |-> TRUE]
IdleTw == [node_path |-> <<>>, npm_path |-> <<"npm">>, npx_path |-> <<"npx">>,
           content_path |-> <<"**/*.py">>, input_css_path |-> InputCss,
           output_css_path |-> OutputCss, config_js_path |-> ConfigJs,
           is_cli |-> FALSE, theme_config |-> PyDict(<<>>)]
\* a process that has not called download_nodejs
IdleProc == [pc |-> "start", val |-> [kind |-> "none"]]
IdleProcs == [p \in {1, 2} |-> IdleProc]
IdleJob == [pc |-> "idle", ctx |-> "plugin", download_node |-> FALSE,
            clean_after |-> TRUE, steps |-> <<>>, warnings |-> <<>>,
            outcome |-> "none", failed |-> "none", started |-> 0,
            theme_arg |-> [given |-> FALSE, text |-> <<>>], before |-> "none"]

----------------------------------------------------------------------------
(* The build gate: _TailwindCSSPlugin._should_skip_build.                  *)

\* the gate with `<=` for `<`: a file exactly as old as the threshold is skipped
should_skip_build_le(p, f, t) ==
    IF ~p.skip_build_if_recent THEN FALSE
    ELSE IF ~Exists(f, p.output_css_path) THEN FALSE
    ELSE t - f[p.output_css_path].mtime <= p.skip_build_time_threshold

\* plugin p, working directory f, wall clock t
should_skip_build(p, f, t) ==
    IF ~p.skip_build_if_recent THEN FALSE
    ELSE IF ~Exists(f, p.output_css_path) THEN FALSE
    ELSE t - f[p.output_css_path].mtime < p.skip_build_time_threshold

\* the wall clock advances
Tick ==
    /\ now < MaxTime
    /\ now' = now + 1
    /\ ret' = NoCall
    /\ UNCHANGED <<fs, plugin, host, cache, nm, tw, eff, job, procs>>

\* a build (or anyone) writes the output stylesheet now
WriteOutput ==
    /\ fs' = [fs EXCEPT ![plugin.output_css_path] = File("css", now)]
    /\ ret' = NoCall
    /\ UNCHANGED <<now, plugin, host, cache, nm, tw, eff, job, procs>>

\* os.utime: the output's modification time is set, to the past or the future
Utime ==
    /\ Exists(fs, plugin.output_css_path)
    /\ \E t \in 0..MaxTime :
          fs' = [fs EXCEPT ![plugin.output_css_path].mtime = t]
    /\ ret' = NoCall
    /\ UNCHANGED <<now, plugin, host, cache, nm, tw, eff, job, procs>>

\* the output stylesheet is deleted
RemoveOutput ==
    /\ Exists(fs, plugin.output_css_path)
    /\ fs' = [fs EXCEPT ![plugin.output_css_path] = Absent]
    /\ ret' = NoCall
    /\ UNCHANGED <<now, plugin, host, cache, nm, tw, eff, job, procs>>

\* plugin.skip_build_if_recent is assigned
SetSkipBuildIfRecent ==
    /\ \E b \in BOOLEAN :
          /\ b # plugin.skip_build_if_recent
          /\ plugin' = [plugin EXCEPT !.skip_build_if_recent = b]
    /\ ret' = NoCall
    /\ UNCHANGED <<now, fs, host, cache, nm, tw, eff, job, procs>>

\* the call plugin._should_skip_build()
ShouldSkipBuild ==
    /\ ret' = [op |-> "should_skip_build", val |-> should_skip_build(plugin, fs, now)]
    /\ UNCHANGED <<now, fs, plugin, host, cache, nm, tw, eff, job, procs>>

InitGate ==
    /\ now = 0
    /\ fs = EmptyDir
    /\ \E b \in BOOLEAN, th \in 0..MaxThreshold :
          plugin = [output_css_path |-> OutputCss, skip_build_if_recent |-> b,
                    skip_build_time_threshold |-> th]
    /\ host = IdleHost
    /\ cache = IdleCache
    /\ nm = IdleNm
    /\ tw = IdleTw
    /\ ret = NoCall
    /\ eff = NoEffects
    /\ job = IdleJob
    /\ procs = IdleProcs

NextGate ==
    \/ Tick
    \/ WriteOutput
    \/ Utime
    \/ RemoveOutput
    \/ SetSkipBuildIfRecent
    \/ ShouldSkipBuild

SpecGate == InitGate /\ [][NextGate]_vars

----------------------------------------------------------------------------
(* C1: the build gate answers true exactly when skipping is enabled, the   *)
(* output file exists and its age, now minus its modification time, is     *)
(* strictly less than the threshold; it answers false whenever skipping is *)
(* disabled and whenever the output file does not exist.                   *)

OutputAge == now - fs[plugin.output_css_path].mtime

C1_GateIffFresh ==
    ret.op = "should_skip_build" =>
        /\ ret.val <=> /\ plugin.skip_build_if_recent
                       /\ Exists(fs, plugin.output_css_path)
                       /\ OutputAge < plugin.skip_build_time_threshold
        /\ ~plugin.skip_build_if_recent => ~ret.val
        /\ ~Exists(fs, plugin.output_css_path) => ~ret.val

\* the gate was asked about a file exactly as old as the threshold, and said build
C1_Witness ==
    /\ ret.op = "should_skip_build"
    /\ plugin.skip_build_if_recent
    /\ Exists(fs, plugin.output_css_path)
    /\ plugin.skip_build_time_threshold > 0
    /\ OutputAge = plugin.skip_build_time_threshold
    /\ ~ret.val

----------------------------------------------------------------------------
(* The Node.js runtime: NodeManager.                                       *)

\* the values platform.system() and platform.machine() take in the model
Systems == {"Darwin", "Linux", "Windows", "FreeBSD"}
Machines == {"x86_64", "arm64", "aarch64"}
\* the versions a NodeManager is constructed with
Versions == {"18.17.0", "20.5.1"}

\* str.lower() on the names above
Lower(s) ==
    CASE s = "Darwin" -> "darwin"
      [] s = "Linux" -> "linux"
      [] s = "Windows" -> "windows"
      [] s = "FreeBSD" -> "freebsd"
      [] s = "AMD64" -> "amd64"
      [] s = "ARM64" -> "arm64"
      [] OTHER -> s

\* Paths and URLs are sequences of components. An archive's file name is
\* written as its last two components, the stem and the suffix, so that
\* str.endswith reads the suffix and os.path.basename keeps both.
EndsWith(path, suffix) == path[Len(path)] = suffix
ArchiveBasename(url) == SubSeq(url, Len(url) - 1, Len(url))

\* os.path.join and os.path.dirname
Join(dir, rest) == dir \o rest
Dirname(path) == SubSeq(path, 1, Len(path) - 1)

\* the package directory's .nodejs_cache (utils.py:171-172)
node_dir_path == <<"dash_tailwindcss_plugin", ".nodejs_cache">>

\* a row whose directory is spelled from the platform tag alone
PlatformRow_unversioned(version, tag, suffix) ==
    [supported |-> TRUE,
     node_url |-> <<"https://nodejs.org/dist", "v" \o version,
                    "node-v" \o version \o "-" \o tag, suffix>>,
     node_dir |-> "node-" \o tag]

\* one row of the platform table: the URL of the archive and the directory it
\* unpacks to, both spelled from the version and the platform tag
PlatformRow(version, tag, suffix) ==
    [supported |-> TRUE,
     node_url |-> <<"https://nodejs.org/dist", "v" \o version,
                    "node-v" \o version \o "-" \o tag, suffix>>,
     node_dir |-> "node-v" \o version \o "-" \o tag]

\* the platform table with any other system treated as Linux
platform_table_else_linux(system, machine, version) ==
    IF system = "darwin" THEN
        IF machine = "arm64" \/ machine = "aarch64"
        THEN PlatformRow(version, "darwin-arm64", ".tar.gz")
        ELSE PlatformRow(version, "darwin-x64", ".tar.gz")
    ELSE IF system = "windows" THEN
        PlatformRow(version, "win-x64", ".zip")
    ELSE
        IF machine = "aarch64"
        THEN PlatformRow(version, "linux-arm64", ".tar.xz")
        ELSE PlatformRow(version, "linux-x64", ".tar.xz")

\* the platform table of download_nodejs (utils.py:147-166), on the lowered
\* system and machine names
platform_table(system, machine, version) ==
    IF system = "darwin" THEN
        IF machine = "arm64" \/ machine = "aarch64"
        THEN PlatformRow(version, "darwin-arm64", ".tar.gz")
        ELSE PlatformRow(version, "darwin-x64", ".tar.gz")
    ELSE IF system = "linux" THEN
        IF machine = "aarch64"
        THEN PlatformRow(version, "linux-arm64", ".tar.xz")
        ELSE PlatformRow(version, "linux-x64", ".tar.xz")
    ELSE IF system = "windows" THEN
        PlatformRow(version, "win-x64", ".zip")
    ELSE
        [supported |-> FALSE]

\* the path of the executable with the layout of the tar archives on every
\* system
node_executable_path_nested(system, node_dir) ==
    Join(node_dir_path, <<node_dir, "bin", "node">>)

\* the path of the executable in the cache (utils.py:177-180)
node_executable_path(system, node_dir) ==
    IF system = "windows"
    THEN Join(node_dir_path, <<node_dir, "node.exe">>)
    ELSE Join(node_dir_path, <<node_dir, "bin", "node">>)

\* a file of the cache: x, the mode has the execute bits; whole, the content is
\* complete; version, the Node.js version of the manager that wrote it
CacheFile(x, whole) == [x |-> x, whole |-> whole, version |-> nm.node_version]
InCache(c, path) == path \in DOMAIN c.files
PutFile(c, path, file) ==
    [c EXCEPT !.files = [q \in (DOMAIN c.files) \cup {path} |->
                            IF q = path THEN file ELSE c.files[q]]]
\* os.remove that leaves the file
DelFile_kept(c, path) == c
\* os.remove(path)
DelFile(c, path) ==
    [c EXCEPT !.files = [q \in (DOMAIN c.files) \ {path} |-> c.files[q]]]

PutFiles(c, paths, file) ==
    [c EXCEPT !.files = [q \in (DOMAIN c.files) \cup paths |->
                            IF q \in paths THEN file ELSE c.files[q]]]

\* NodeManager.get_command_alias_by_platform
get_command_alias_by_platform(system, command) ==
    IF Lower(system) = "windows" THEN command \o ".cmd" ELSE command

\* what a Node.js archive unpacks beside the executable: npm and npx
ArchiveMembers(system, node_executable) ==
    {node_executable,
     Join(Dirname(node_executable), <<get_command_alias_by_platform(system, "npm")>>),
     Join(Dirname(node_executable), <<get_command_alias_by_platform(system, "npx")>>)}

\* what the operating system lets run: on Windows any existing file, elsewhere a
\* file whose mode has the execute bits
IsExecutable(system, c, path) ==
    /\ InCache(c, path)
    /\ (Lower(system) = "windows" \/ c.files[path].x)

\* the return values and the exceptions of the NodeManager
System == [kind |-> "System"]
Downloaded(path) == [kind |-> "Downloaded", path |-> path]
Raise(exc, message) == [kind |-> "raise", exc |-> exc, message |-> message]

MsgMissingCli == "Node.js is required but not found in PATH. Install Node.js or use --download-node to automatically download it."
MsgMissingPlugin == "Node.js is required for offline mode but not found. Install Node.js or use download_node=True to automatically download it."

\* NodeManager.check_nodejs_available: `node --version` ran and exited 0
check_nodejs_available(h) == h.node = "ok"


\* the notice logged whatever the flag
notice_always(log_init, which) == <<which>>

\* if self.log_init: ... logger.info(...) (utils.py:184-186, 229-231)
notice(log_init, which) == IF log_init THEN <<which>> ELSE <<>>

\* the notices among the log lines of a call
Notices(log) == {i \in 1..Len(log) : log[i] \in {"using_system", "using_cached"}}

\* the process after a call that logged `log`: its notices so far, counted up
\* to MaxNotices
Noticed(h, log) ==
    [h EXCEPT !.notices = IF @ + Cardinality(Notices(log)) > MaxNotices THEN MaxNotices
                          ELSE @ + Cardinality(Notices(log))]

\* the cache test by the content of the directory: any file in it is a hit
cache_hit_any_file(c, node_executable) == DOMAIN c.files # {}

\* the cache test with the answer always no: every call downloads
cache_hit_never(c, node_executable) == FALSE

\* the cache test of download_nodejs: os.path.exists(node_executable)
cache_hit(c, node_executable) == InCache(c, node_executable)

\* one call's effects, counted from nothing
Effects(net, extracted, mkdirs, removed, chmods, log) ==
    [NoEffects EXCEPT !.net = net, !.extracted = extracted, !.mkdirs = mkdirs,
                      !.removed = removed, !.chmods = chmods, !.log = log]

\* the effects of a call that asked the network for url
Fetched(e, url) == [e EXCEPT !.url = url]

\* the log lines of a download: two more of them in the CLI (utils.py:191-198)
DownloadLog(is_cli) ==
    IF is_cli THEN <<"downloading", "downloading_from", "extracting">>
    ELSE <<"downloading">>

\* NodeManager.download_nodejs, called for `op`. urlretrieve and the extraction
\* are the two steps that may fail; what they leave behind stays in the cache.
download_nodejs(op) ==
    LET system == Lower(host.system)
        machine == Lower(host.machine)
        plat == platform_table(system, machine, nm.node_version)
    IN
    IF ~plat.supported THEN
        /\ ret' = [op |-> op, val |-> Raise("RuntimeError", "Unsupported platform: " \o system)]
        /\ eff' = NoEffects
        /\ UNCHANGED <<cache, nm>>
    ELSE
        LET mkdirs == IF cache.dir THEN 0 ELSE 1
            made == [cache EXCEPT !.dir = TRUE]
            node_executable == node_executable_path(system, plat.node_dir)
            node_archive == Join(node_dir_path, ArchiveBasename(plat.node_url))
            is_archive == \/ EndsWith(node_archive, ".tar.gz")
                          \/ EndsWith(node_archive, ".tar.xz")
                          \/ EndsWith(node_archive, ".zip")
            is_tar == EndsWith(node_archive, ".tar.gz") \/ EndsWith(node_archive, ".tar.xz")
        IN
        IF cache_hit(made, node_executable) THEN
            \* the executable is there: no download
            /\ cache' = made
            /\ nm' = [nm EXCEPT !.log_init = FALSE]
            /\ eff' = Effects(0, 0, mkdirs, 0, 0,
                              notice(nm.log_init, "using_cached"))
            /\ ret' = [op |-> op, val |-> Downloaded(node_executable)]
        ELSE
            LET downloaded == PutFile(made, node_archive, CacheFile(FALSE, TRUE))
            IN
            \/ \* urlretrieve raises, before or after it opened the archive file
               /\ \E opened \in BOOLEAN :
                     cache' = IF opened
                              THEN PutFile(made, node_archive, CacheFile(FALSE, FALSE))
                              ELSE made
               /\ eff' = Fetched(Effects(1, 0, mkdirs, 0, 0,
                                 IF nm.is_cli THEN <<"downloading", "downloading_from">>
                                 ELSE <<"downloading">>), plat.node_url)
               /\ ret' = [op |-> op, val |-> Raise("URLError", "download failed")]
               /\ UNCHANGED nm
            \/ \* the archive is downloaded and its extraction raises, before or
               \* after it created the executable
               /\ is_archive
               /\ \E created \in BOOLEAN :
                     cache' = IF created
                              THEN PutFile(downloaded, node_executable, CacheFile(FALSE, FALSE))
                              ELSE downloaded
               /\ eff' = Fetched(Effects(1, 1, mkdirs, 0, 0, DownloadLog(nm.is_cli)), plat.node_url)
               /\ ret' = [op |-> op, val |-> Raise("ReadError", "extraction failed")]
               /\ UNCHANGED nm
            \/ \* downloaded, extracted with the modes of the archive (a zip
               \* carries none), archive removed, executable bit set
               /\ is_archive
               /\ \E mode \in (IF is_tar THEN BOOLEAN ELSE {FALSE}) :
                     LET extracted == PutFiles(downloaded,
                                               ArchiveMembers(host.system, node_executable),
                                               CacheFile(mode, TRUE))
                         removed == DelFile(extracted, node_archive)
                     IN cache' = IF system # "windows"
                                 THEN PutFile(removed, node_executable, CacheFile(TRUE, TRUE))
                                 ELSE removed
               /\ eff' = Fetched(Effects(1, 1, mkdirs, 1, IF system # "windows" THEN 1 ELSE 0,
                                 DownloadLog(nm.is_cli) \o <<"downloaded">>), plat.node_url)
               /\ ret' = [op |-> op, val |-> Downloaded(node_executable)]
               /\ UNCHANGED nm

\* check_or_download_nodejs asking download_node before PATH
check_or_download_nodejs_download_first(op) ==
    IF nm.download_node THEN
        download_nodejs(op)
    ELSE IF check_nodejs_available(host) THEN
        /\ nm' = [nm EXCEPT !.log_init = FALSE]
        /\ eff' = Effects(0, 0, 0, 0, 0, notice(nm.log_init, "using_system"))
        /\ ret' = [op |-> op, val |-> System]
        /\ UNCHANGED cache
    ELSE
        /\ ret' = [op |-> op,
                   val |-> Raise("RuntimeError",
                                 IF nm.is_cli THEN MsgMissingCli ELSE MsgMissingPlugin)]
        /\ eff' = NoEffects
        /\ UNCHANGED <<cache, nm>>

\* the message of the missing runtime, the CLI's in both contexts
missing_message_cli(is_cli) == MsgMissingCli

\* the message of the missing runtime (utils.py:237-246)
missing_message(is_cli) == IF is_cli THEN MsgMissingCli ELSE MsgMissingPlugin

\* NodeManager.check_or_download_nodejs, called for `op`
check_or_download_nodejs(op) ==
    IF check_nodejs_available(host) THEN
        /\ nm' = [nm EXCEPT !.log_init = FALSE]
        /\ eff' = Effects(0, 0, 0, 0, 0, notice(nm.log_init, "using_system"))
        /\ ret' = [op |-> op, val |-> System]
        /\ UNCHANGED cache
    ELSE IF ~nm.download_node THEN
        /\ ret' = [op |-> op, val |-> Raise("RuntimeError", missing_message(nm.is_cli))]
        /\ eff' = NoEffects
        /\ UNCHANGED <<cache, nm>>
    ELSE
        download_nodejs(op)

\* a call of manager.check_or_download_nodejs()
CheckOrDownloadNodejs ==
    /\ check_or_download_nodejs("check_or_download_nodejs")
    /\ host' = Noticed(host, eff'.log)
    /\ UNCHANGED <<now, fs, plugin, tw, job, procs>>

\* NodeManager(download_node, node_version, is_cli)
NewNodeManager ==
    /\ \E d \in BOOLEAN, v \in Versions, c \in BOOLEAN :
          nm' = [download_node |-> d, node_version |-> v, is_cli |-> c, log_init |-> TRUE]
    /\ ret' = NoCall
    /\ eff' = NoEffects
    /\ UNCHANGED <<now, fs, plugin, host, cache, tw, job, procs>>

\* node is installed on, removed from or broken on PATH
PathChanges ==
    /\ \E n \in {"none", "broken", "ok"} :
          /\ n # host.node
          /\ host' = [host EXCEPT !.node = n]
    /\ ret' = NoCall
    /\ eff' = NoEffects
    /\ UNCHANGED <<now, fs, plugin, cache, nm, tw, job, procs>>

InitNode ==
    /\ now = 0
    /\ fs = EmptyDir
    /\ plugin = IdlePlugin
    /\ \E s \in Systems, m \in Machines, n \in {"none", "broken", "ok"} :
          host = [system |-> s, machine |-> m, node |-> n, notices |-> 0]
    /\ cache = IdleCache
    /\ \E d \in BOOLEAN, v \in Versions, c \in BOOLEAN :
          nm = [download_node |-> d, node_version |-> v, is_cli |-> c, log_init |-> TRUE]
    /\ tw = IdleTw
    /\ ret = NoCall
    /\ eff = NoEffects
    /\ job = IdleJob
    /\ procs = IdleProcs

NextNode ==
    \/ CheckOrDownloadNodejs
    \/ NewNodeManager
    \/ PathChanges

SpecNode == InitNode /\ [][NextNode]_vars

----------------------------------------------------------------------------
(* Two processes in download_nodejs at once (utils.py:168-217). Each has    *)
(* its own NodeManager, constructed alike, and both work on the one cache   *)
(* directory of the package, which no lock protects. procs[p].pc is the     *)
(* system call process p is about to make. The hosts are the supported      *)
(* systems that set the execute bits; the network and the archive are good. *)

Procs == {1, 2}
Other(p) == 3 - p

\* the row of the platform table, the executable and the archive of the host
RaceRow == platform_table(Lower(host.system), Lower(host.machine), nm.node_version)
RaceExecutable == node_executable_path(Lower(host.system), RaceRow.node_dir)
RaceArchive == Join(node_dir_path, ArchiveBasename(RaceRow.node_url))

\* process p moves to pc with val, the others stay
Moved(p, pc, val) == [procs EXCEPT ![p] = [pc |-> pc, val |-> val]]
At(p, pc) == procs[p].pc = pc

\* two writers of one file, each from its first byte: what is on disk when one
\* of them finishes is complete if the other is not in the middle of it
Complete(p, pc) == IF At(Other(p), pc) THEN BOOLEAN ELSE {TRUE}

\* os.makedirs(node_dir_path, exist_ok=True) and the test for the executable
\* (utils.py:172-187)
RaceTest(p) ==
    /\ At(p, "start")
    /\ cache' = [cache EXCEPT !.dir = TRUE]
    /\ procs' = IF cache_hit(cache, RaceExecutable)
                THEN Moved(p, "returned", Downloaded(RaceExecutable))
                ELSE Moved(p, "urlretrieve", procs[p].val)
    /\ UNCHANGED <<now, fs, plugin, host, nm, tw, ret, eff, job>>

\* urlretrieve(node_url, node_archive) opens the archive for writing, empty
\* (utils.py:194)
RaceOpen(p) ==
    /\ At(p, "urlretrieve")
    /\ cache' = PutFile(cache, RaceArchive, CacheFile(FALSE, FALSE))
    /\ procs' = Moved(p, "writing", procs[p].val)
    /\ UNCHANGED <<now, fs, plugin, host, nm, tw, ret, eff, job>>

\* urlretrieve returns: the archive is written, unless the other process
\* unlinked the path meanwhile
RaceWritten(p) ==
    /\ At(p, "writing")
    /\ \E whole \in Complete(p, "writing") :
          cache' = IF InCache(cache, RaceArchive)
                   THEN PutFile(cache, RaceArchive, CacheFile(FALSE, whole))
                   ELSE cache
    /\ procs' = Moved(p, "open", procs[p].val)
    /\ UNCHANGED <<now, fs, plugin, host, nm, tw, ret, eff, job>>

\* tarfile.open(node_archive) and the start of extractall: the members are
\* created empty, with the default mode (utils.py:199-203)
RaceExtract(p) ==
    /\ At(p, "open")
    /\ IF ~InCache(cache, RaceArchive) THEN
           /\ procs' = Moved(p, "raised", Raise("FileNotFoundError", "archive"))
           /\ UNCHANGED cache
       ELSE IF ~cache.files[RaceArchive].whole THEN
           \* a truncated archive: the extraction raises, before or after it
           \* created the executable
           /\ procs' = Moved(p, "raised", Raise("ReadError", "extraction failed"))
           /\ \E created \in BOOLEAN :
                 cache' = IF created
                          THEN PutFile(cache, RaceExecutable, CacheFile(FALSE, FALSE))
                          ELSE cache
       ELSE
           /\ procs' = Moved(p, "extracting", procs[p].val)
           /\ cache' = PutFiles(cache, ArchiveMembers(host.system, RaceExecutable),
                                CacheFile(FALSE, FALSE))
    /\ UNCHANGED <<now, fs, plugin, host, nm, tw, ret, eff, job>>

\* extractall returns: the members are written and have the modes of the
\* archive. An archive the other process truncated meanwhile may have been
\* read to its end already, or the extraction raises.
RaceExtracted(p) ==
    /\ At(p, "extracting")
    /\ \/ /\ \E mode \in BOOLEAN, whole \in Complete(p, "extracting") :
                cache' = PutFiles(cache, ArchiveMembers(host.system, RaceExecutable),
                                  CacheFile(mode, whole))
          /\ procs' = Moved(p, "remove", procs[p].val)
       \/ /\ InCache(cache, RaceArchive)
          /\ ~cache.files[RaceArchive].whole
          /\ procs' = Moved(p, "raised", Raise("ReadError", "extraction failed"))
          /\ UNCHANGED cache
    /\ UNCHANGED <<now, fs, plugin, host, nm, tw, ret, eff, job>>

\* os.remove(node_archive) (utils.py:210)
RaceRemove(p) ==
    /\ At(p, "remove")
    /\ IF InCache(cache, RaceArchive) THEN
           /\ cache' = DelFile(cache, RaceArchive)
           /\ procs' = Moved(p, "chmod", procs[p].val)
       ELSE
           /\ procs' = Moved(p, "raised", Raise("FileNotFoundError", "archive"))
           /\ UNCHANGED cache
    /\ UNCHANGED <<now, fs, plugin, host, nm, tw, ret, eff, job>>

\* os.chmod(node_executable, 0o755) and return node_executable
\* (utils.py:213-217)
RaceChmod(p) ==
    /\ At(p, "chmod")
    /\ cache' = PutFile(cache, RaceExecutable,
                        CacheFile(TRUE, cache.files[RaceExecutable].whole))
    /\ procs' = Moved(p, "returned", Downloaded(RaceExecutable))
    /\ UNCHANGED <<now, fs, plugin, host, nm, tw, ret, eff, job>>

RaceSystems == {"Linux", "Darwin"}

InitRace ==
    /\ now = 0
    /\ fs = EmptyDir
    /\ plugin = IdlePlugin
    /\ \E s \in RaceSystems, m \in Machines :
          host = [system |-> s, machine |-> m, node |-> "none", notices |-> 0]
    /\ cache = IdleCache
    /\ \E v \in Versions, c \in BOOLEAN :
          nm = [download_node |-> TRUE, node_version |-> v, is_cli |-> c, log_init |-> TRUE]
    /\ tw = IdleTw
    /\ ret = NoCall
    /\ eff = NoEffects
    /\ job = IdleJob
    /\ procs = IdleProcs

NextRace ==
    \/ \E p \in Procs : RaceTest(p)
    \/ \E p \in Procs : RaceOpen(p)
    \/ \E p \in Procs : RaceWritten(p)
    \/ \E p \in Procs : RaceExtract(p)
    \/ \E p \in Procs : RaceExtracted(p)
    \/ \E p \in Procs : RaceRemove(p)
    \/ \E p \in Procs : RaceChmod(p)

SpecRace == InitRace /\ [][NextRace]_vars

----------------------------------------------------------------------------
(* The value serializer: dict_to_js_object (utils.py:55-100).               *)
(* A Python value is a record with its type in t; a dict is the sequence of *)
(* its (key, value) pairs in insertion order. A text of several lines is    *)
(* the sequence of its lines, so '\n'.join and str.split('\n') are the      *)
(* identity on it, and + on two texts joins the last line of the first with *)
(* the first line of the second.                                            *)

\* isinstance(v, cls): bool is a subclass of int
isinstance(v, cls) ==
    IF cls = "int" THEN v.t \in {"int", "bool"} ELSE v.t = cls

\* a + b on texts
Cat(a, b) == SubSeq(a, 1, Len(a) - 1) \o <<a[Len(a)] \o b[1]>> \o Tail(b)

\* '  ' * n
RECURSIVE indent_of(_)
indent_of(n) == IF n = 0 THEN "" ELSE "  " \o indent_of(n - 1)

\* repr(v), which is str(v) for the values that are no text: a list and a
\* dict in Python's own notation
RECURSIVE PyRepr(_)
RECURSIVE PyReprItems(_, _)
PyReprItems(v, i) ==
    IF i > Len(v.items) THEN ""
    ELSE (IF i > 1 THEN ", " ELSE "")
         \o (IF v.t = "dict"
             THEN "'" \o v.items[i][1] \o "': " \o PyRepr(v.items[i][2])
             ELSE PyRepr(v.items[i]))
         \o PyReprItems(v, i + 1)
PyRepr(v) ==
    CASE v.t = "str" -> "'" \o v.s \o "'"
      [] v.t = "bool" -> IF v.b THEN "True" ELSE "False"
      [] v.t = "int" -> ToString(v.n)
      [] v.t = "float" -> v.s
      [] v.t = "NoneType" -> "None"
      [] v.t = "list" -> "[" \o PyReprItems(v, 1) \o "]"
      [] v.t = "dict" -> "{" \o PyReprItems(v, 1) \o "}"

\* str(v) and f'{v}'
PyFormat(v) == IF v.t = "str" THEN v.s ELSE PyRepr(v)

RECURSIVE dict_to_js_object(_, _)
RECURSIVE array_items(_, _, _)
RECURSIVE dict_items(_, _, _)

\* ", ".join(array_items) for the elements of value from the i-th on
\* (utils.py:84-96)
array_items(value, i, indent) ==
    IF i > Len(value) THEN <<"">>
    ELSE LET item == value[i]
             text == IF isinstance(item, "dict") THEN dict_to_js_object(item, indent + 2)
                     ELSE IF isinstance(item, "str") THEN <<"\"" \o item.s \o "\"">>
                     ELSE IF isinstance(item, "bool")
                          THEN <<IF item.b THEN "true" ELSE "false">>
                     ELSE IF isinstance(item, "int") \/ isinstance(item, "float")
                          THEN <<PyFormat(item)>>
                     ELSE <<PyFormat(item)>>
         IN IF i = Len(value) THEN text
            ELSE Cat(Cat(text, <<", ">>), array_items(value, i + 1, indent))

\* ',\n'.join(items) for the entries of d from the i-th on (utils.py:72-98)
dict_items(d, i, indent) ==
    LET key == d.items[i][1]
        value == d.items[i][2]
        head == <<indent_of(indent + 1) \o key \o ": ">>
        item == IF isinstance(value, "dict")
                THEN Cat(head, dict_to_js_object(value, indent + 1))
                ELSE IF isinstance(value, "str")
                THEN Cat(head, <<"\"" \o value.s \o "\"">>)
                ELSE IF isinstance(value, "bool")
                THEN Cat(head, <<IF value.b THEN "true" ELSE "false">>)
                ELSE IF isinstance(value, "int") \/ isinstance(value, "float")
                THEN Cat(head, <<PyFormat(value)>>)
                ELSE IF isinstance(value, "list")
                THEN Cat(Cat(Cat(head, <<"[">>), array_items(value.items, 1, indent)), <<"]">>)
                ELSE Cat(head, <<PyFormat(value)>>)
    IN IF i = Len(d.items) THEN item
       ELSE Cat(item, <<",">>) \o dict_items(d, i + 1, indent)

\* dict_to_js_object(d, indent) (utils.py:55-100)
dict_to_js_object(d, indent) ==
    IF d.items = <<>> THEN <<"{}">>
    ELSE <<"{">> \o dict_items(d, 1, indent) \o <<indent_of(indent) \o "}">>

----------------------------------------------------------------------------
(* The lifecycle driver: TailwindCommand.                                  *)

\* the texts a subprocess leaves on stderr
Stderrs == {"", "npm init error", "npm install error", "Build error"}

\* what the user writes into a scaffold file
UserText == <<"/* edited */">>

\* os.path.exists: a path of one component is in the working directory, a
\* longer one is in the Node.js cache
path_exists(path) ==
    IF Len(path) = 1
    THEN path[1] \in WorkPaths /\ Exists(fs, path[1])
    ELSE InCache(cache, path)

\* a word of an argument vector
Arg(word) == <<word>>

\* the outcome of subprocess.run(cmd, capture_output=True, text=True)
Completed(cmd, returncode, stderr) ==
    [cmd |-> cmd, raised |-> FALSE, returncode |-> returncode, stderr |-> stderr]
\* subprocess.run raised: the program of cmd could not be started
NotStarted(cmd) ==
    [cmd |-> cmd, raised |-> TRUE, returncode |-> -1, stderr |-> ""]
\* stderr is read only after a nonzero exit
Outcomes(cmd) ==
    {NotStarted(cmd), Completed(cmd, 0, "")} \cup {Completed(cmd, 1, e) : e \in Stderrs}
\* subprocess.run raised KeyboardInterrupt: the user's interrupt reached the
\* wait for the child
Interrupted(cmd) ==
    [cmd |-> cmd, raised |-> TRUE, returncode |-> -2, stderr |-> ""]
WasInterrupted(run) == run.raised /\ run.returncode = -2

\* the value every method of TailwindCommand returns
Self == [kind |-> "self"]

\* one call's log lines and subprocess runs
TwEffects(writes, runs, log) ==
    [NoEffects EXCEPT !.writes = writes, !.runs = runs, !.log = log]

\* the lines of the default input stylesheet (utils.py:369-372)
input_css_content == <<"@tailwind base;", "@tailwind components;", "@tailwind utilities;">>

\* ', '.join([f'"{path}"' for path in content_path])
RECURSIVE content_paths_str(_)
content_paths_str(content_path) ==
    IF content_path = <<>> THEN ""
    ELSE IF Len(content_path) = 1 THEN "\"" \o content_path[1] \o "\""
    ELSE "\"" \o content_path[1] \o "\", " \o content_paths_str(Tail(content_path))

\* the configuration file with theme.extend always written as {}
config_content_no_theme(content_path, theme_config) ==
    <<"module.exports = {",
      "    content: [" \o content_paths_str(content_path) \o "],",
      "    theme: {",
      "        extend: {},",
      "    },",
      "    plugins: [],",
      "}">>

\* theme_str (utils.py:387-394): the theme at indent 2 with four spaces put
\* before each of its lines, or {} for the empty theme
theme_str(theme_config) ==
    IF theme_config.items # <<>>
    THEN LET theme_lines == dict_to_js_object(theme_config, 2)
         IN [i \in 1..Len(theme_lines) |-> "    " \o theme_lines[i]]
    ELSE <<"{}">>

\* the lines of the default configuration file (utils.py:396-403)
config_content(content_path, theme_config) ==
    <<"module.exports = {",
      "    content: [" \o content_paths_str(content_path) \o "],",
      "    theme: {">>
    \o Cat(Cat(<<"        extend: ">>, theme_str(theme_config)), <<",">>)
    \o <<"    },",
         "    plugins: [],",
         "}">>

\* open(path, 'w') and write: the file is created or replaced; the compiler
\* makes the directory of its output if it is not there
write_file(f, path, content) ==
    [q \in DOMAIN f |-> IF q = path THEN File(content, now)
                        ELSE IF Inside(path, q) /\ ~Exists(f, q) THEN File(<<>>, now)
                        ELSE f[q]]

\* os.remove(p) of a file, shutil.rmtree(p) of a directory and all inside it
Remove(f, p) == [q \in DOMAIN f |-> IF q = p \/ Inside(q, p) THEN Absent ELSE f[q]]

\* TailwindCommand.create_default_input_tailwindcss on the working directory f
create_default_input_tailwindcss(f) ==
    write_file(f, tw.input_css_path, input_css_content)

\* TailwindCommand.create_default_tailwindcss_config on the working directory f
create_default_tailwindcss_config(f) ==
    write_file(f, tw.config_js_path, config_content(tw.content_path, tw.theme_config))

\* TailwindCommand._check_npm_init
check_npm_init(f) == Exists(f, PackageJson)

\* the argument vector of a companion: through node when node was downloaded
\* and the companion is not on disk (utils.py:486-494, 555-577)
companion_cmd(companion_path, args) ==
    IF tw.node_path # <<>> /\ ~path_exists(companion_path)
    THEN <<tw.node_path, companion_path>> \o args
    ELSE <<companion_path>> \o args

\* init() with the scaffold files written whether they exist or not
init_files_overwriting(f) ==
    create_default_tailwindcss_config(create_default_input_tailwindcss(f))

\* init() testing config_js_path before writing either file
init_files_one_test(f) ==
    LET f1 == IF ~Exists(f, tw.config_js_path)
              THEN create_default_input_tailwindcss(f) ELSE f
    IN IF ~Exists(f, tw.config_js_path)
       THEN create_default_tailwindcss_config(f1) ELSE f1

\* the scaffold files after init(): each written only if it does not exist
init_files(f) ==
    LET f1 == IF ~Exists(f, tw.input_css_path)
              THEN create_default_input_tailwindcss(f) ELSE f
    IN IF ~Exists(f1, tw.config_js_path)
       THEN create_default_tailwindcss_config(f1) ELSE f1

\* how many files a step from f to g wrote
Written(f, g) == Cardinality({p \in WorkPaths : f[p] # g[p]})

\* a call of tailwind_command.create_default_input_tailwindcss()
CreateDefaultInputTailwindcss ==
    /\ fs' = create_default_input_tailwindcss(fs)
    /\ ret' = [op |-> "create_default_input_tailwindcss", val |-> [kind |-> "none"]]
    /\ eff' = TwEffects(1, <<>>, <<>>)
    /\ UNCHANGED <<now, plugin, host, cache, nm, tw, job, procs>>

\* a call of tailwind_command.create_default_tailwindcss_config()
CreateDefaultTailwindcssConfig ==
    /\ fs' = create_default_tailwindcss_config(fs)
    /\ ret' = [op |-> "create_default_tailwindcss_config", val |-> [kind |-> "none"]]
    /\ eff' = TwEffects(1, <<>>, <<>>)
    /\ UNCHANGED <<now, plugin, host, cache, nm, tw, job, procs>>

\* the log lines of init() up to the manifest test (utils.py:454-482); the
\* CLI says what it looks for and what it creates
init_log(f) ==
    <<<<"info", "Start initializing Tailwind CSS...">>>>
    \o (IF tw.is_cli THEN <<<<"info", "Creating input CSS file...">>>> ELSE <<>>)
    \o (IF tw.is_cli /\ ~Exists(f, tw.input_css_path)
        THEN <<<<"info", "Input CSS file not found. Creating default input CSS file...">>,
               <<"info", "Default input CSS file created">>>>
        ELSE <<>>)
    \o (IF tw.is_cli THEN <<<<"info", "Creating Tailwind config...">>>> ELSE <<>>)
    \o (IF tw.is_cli /\ ~Exists(f, tw.config_js_path)
        THEN <<<<"info", "Config file not found. Creating default config file...">>,
               <<"info", "Default config file created">>>>
        ELSE <<>>)

\* what init() does once `npm init -y` has ended as `run` (utils.py:495-505):
\* the value it hands back and its last log line
init_result(run) ==
    IF run.raised THEN
        [val |-> Self, log |-> <<<<"error", "Error initializing Tailwind CSS: could not run">>>>]
    ELSE IF run.returncode # 0 THEN
        [val |-> Self, log |-> <<<<"error", "Error initializing Tailwind CSS: " \o run.stderr>>>>]
    ELSE
        [val |-> Self, log |-> <<<<"info", "Tailwind CSS initialized successfully!">>>>]

\* a call of tailwind_command.init()
TwInit ==
    LET files == init_files(fs)
        init_cmd == companion_cmd(tw.npm_path, <<Arg("init"), Arg("-y")>>)
    IN
    IF ~check_npm_init(files) THEN
        \E run \in Outcomes(init_cmd) :
            LET res == init_result(run)
            IN
            \* npm init -y writes package.json when it succeeds
            /\ fs' = IF ~run.raised /\ run.returncode = 0
                     THEN write_file(files, PackageJson, <<"{}">>)
                     ELSE files
            /\ ret' = [op |-> "init", val |-> res.val]
            /\ eff' = TwEffects(Written(fs, files), <<run>>, init_log(fs) \o res.log)
            /\ UNCHANGED <<now, plugin, host, cache, nm, tw, job, procs>>
    ELSE
        /\ fs' = files
        /\ ret' = [op |-> "init", val |-> Self]
        /\ eff' = TwEffects(Written(fs, files), <<>>,
                            init_log(fs)
                            \o <<<<"info", "Tailwind CSS initialized successfully!">>>>)
        /\ UNCHANGED <<now, plugin, host, cache, nm, tw, job, procs>>

\* what build() does once the compiler has ended as `run` (utils.py:579-591)
build_result(run) ==
    IF run.raised THEN
        [val |-> Self, log |-> <<<<"error", "Error building Tailwind CSS: could not run">>>>]
    ELSE IF run.returncode # 0 THEN
        [val |-> Self, log |-> <<<<"error", "Error building Tailwind CSS: " \o run.stderr>>>>]
    ELSE
        [val |-> Self, log |-> <<<<"info", "Build completed successfully!">>>>]

\* a call of tailwind_command.build()
TwBuild ==
    LET build_cmd == companion_cmd(tw.npx_path,
                        <<Arg("tailwindcss"), Arg("-i"), Arg(tw.input_css_path),
                          Arg("-o"), Arg(tw.output_css_path),
                          Arg("-c"), Arg(tw.config_js_path)>>)
    IN
    \E run \in Outcomes(build_cmd) :
        LET res == build_result(run)
        IN
        \* the compiler writes the output stylesheet when it succeeds
        /\ fs' = IF ~run.raised /\ run.returncode = 0
                 THEN write_file(fs, tw.output_css_path, <<"compiled">>)
                 ELSE fs
        /\ ret' = [op |-> "build", val |-> res.val]
        /\ eff' = TwEffects(0, <<run>>, <<<<"info", "Building Tailwind CSS...">>>> \o res.log)
        /\ UNCHANGED <<now, plugin, host, cache, nm, tw, job, procs>>

\* the argument vector of the probe of _check_tailwindcss (utils.py:429-441)
check_tailwindcss_cmd ==
    IF tw.node_path # <<>> THEN
        IF path_exists(tw.npx_path)
        THEN <<tw.npx_path, Arg("tailwindcss"), Arg("--help")>>
        ELSE <<tw.node_path, tw.npx_path, Arg("tailwindcss"), Arg("--help")>>
    ELSE <<tw.npx_path, Arg("tailwindcss"), Arg("--help")>>

\* the outcomes of the probe: only its exit status is read (utils.py:443-445)
ProbeOutcomes(cmd) ==
    {NotStarted(cmd), Completed(cmd, 0, ""), Completed(cmd, 1, "")}

\* the packages install() asks npm for (utils.py:524, 531)
install_packages == <<Arg("tailwindcss@3")>>

\* the argument vector of the install (utils.py:518-532)
install_cmd ==
    companion_cmd(tw.npm_path, <<Arg("install"), Arg("-D")>> \o install_packages)

\* what install() does once `npm install` has ended as `run` (utils.py:533-543)
install_result(run) ==
    IF run.raised THEN
        [val |-> Self, log |-> <<<<"error", "Error installing Tailwind CSS: could not run">>>>]
    ELSE IF run.returncode # 0 THEN
        [val |-> Self, log |-> <<<<"error", "Error installing Tailwind CSS: " \o run.stderr>>>>]
    ELSE
        [val |-> Self, log |-> <<<<"info", "Tailwind CSS installed successfully!">>>>]

\* the install whatever the probe says
install_needed_always(probe) == TRUE

\* if not self._check_tailwindcss(), the probe being result.returncode == 0
\* (utils.py:443-445, 516)
install_needed(probe) == probe.returncode # 0

\* a call of tailwind_command.install(): the probe, and the install when the
\* probe did not exit 0
TwInstall ==
    \E probe \in ProbeOutcomes(check_tailwindcss_cmd) :
        LET start == <<<<"info", "Start installing Tailwind CSS...">>>>
        IN
        IF probe.raised THEN
            \* the probe could not be run: caught by except Exception
            /\ fs' = fs
            /\ ret' = [op |-> "install", val |-> Self]
            /\ eff' = TwEffects(0, <<probe>>,
                         start \o <<<<"error", "Error installing Tailwind CSS: could not run">>>>)
            /\ UNCHANGED <<now, plugin, host, cache, nm, tw, job, procs>>
        ELSE IF ~install_needed(probe) THEN
            /\ fs' = fs
            /\ ret' = [op |-> "install", val |-> Self]
            /\ eff' = TwEffects(0, <<probe>>,
                         start \o <<<<"info", "Tailwind CSS installed successfully!">>>>)
            /\ UNCHANGED <<now, plugin, host, cache, nm, tw, job, procs>>
        ELSE
            \E run \in Outcomes(install_cmd) :
                LET res == install_result(run)
                    \* npm install writes the manifest, the lockfile and node_modules
                    installed == write_file(write_file(write_file(fs,
                                     PackageJson, <<"{devDependencies}">>),
                                     PackageLock, <<"{lock}">>),
                                     NodeModules, <<"tailwindcss">>)
                IN
                /\ fs' = IF ~run.raised /\ run.returncode = 0 THEN installed ELSE fs
                /\ ret' = [op |-> "install", val |-> res.val]
                /\ eff' = TwEffects(0, <<probe, run>>, start \o res.log)
                /\ UNCHANGED <<now, plugin, host, cache, nm, tw, job, procs>>

\* the argument vector of watch() (utils.py:603-627)
watch_cmd ==
    companion_cmd(tw.npx_path,
                  <<Arg("tailwindcss"), Arg("-i"), Arg(tw.input_css_path),
                    Arg("-o"), Arg(tw.output_css_path),
                    Arg("-c"), Arg(tw.config_js_path), Arg("--watch")>>)

\* what watch() does once subprocess.run(watch_cmd) has ended as `run`
\* (utils.py:628-636): interrupted, failed with another exception, or returned
watch_result(run) ==
    IF WasInterrupted(run) THEN
        [val |-> Self, log |-> <<<<"info", "Watch stopped.">>>>]
    ELSE IF run.raised THEN
        [val |-> Self, log |-> <<<<"error", "Error watching for changes: could not run">>>>]
    ELSE
        [val |-> Self, log |-> <<>>]

\* a call of tailwind_command.watch(): it blocks until the child ends; the
\* child may have compiled the output before it ended
TwWatch ==
    \E run \in {NotStarted(watch_cmd), Interrupted(watch_cmd),
                Completed(watch_cmd, 0, ""), Completed(watch_cmd, 1, "")} :
        \E compiled \in (IF run = NotStarted(watch_cmd) THEN {FALSE} ELSE BOOLEAN) :
            LET res == watch_result(run)
            IN
            /\ fs' = IF compiled
                     THEN write_file(fs, tw.output_css_path, <<"compiled">>)
                     ELSE fs
            /\ ret' = [op |-> "watch", val |-> res.val]
            /\ eff' = TwEffects(0, <<run>>,
                         <<<<"info", "Watching for changes...">>>> \o res.log)
            /\ UNCHANGED <<now, plugin, host, cache, nm, tw, job, procs>>

\* the targets of clean() with the output stylesheet among the files
clean_targets_with_output ==
    <<tw.config_js_path, PackageJson, PackageLock, tw.input_css_path,
      tw.output_css_path, NodeModules>>

\* the targets of clean(), in the order it goes through them: the four files
\* (utils.py:646-651), then the directory (utils.py:653)
clean_targets ==
    <<tw.config_js_path, PackageJson, PackageLock, tw.input_css_path, NodeModules>>

\* clean() stopping at the first removal that fails
RECURSIVE clean_from_stopping(_, _, _)
clean_from_stopping(i, f, failed) ==
    IF i > Len(clean_targets) THEN [fs |-> f, log |-> <<>>]
    ELSE
        LET p == clean_targets[i]
        IN
        IF ~Exists(f, p) THEN clean_from_stopping(i + 1, f, failed)
        ELSE IF p \in failed THEN
            [fs |-> f, log |-> <<<<"warning", "Warning: Could not remove " \o p>>>>]
        ELSE
            LET rest == clean_from_stopping(i + 1, Remove(f, p), failed)
            IN [fs |-> rest.fs,
                log |-> (IF tw.is_cli THEN <<<<"info", "Removed " \o p>>>> ELSE <<>>)
                        \o rest.log]

\* clean() without the test os.path.exists: the removal of a target that is
\* not there raises and is logged like any other failure
RECURSIVE clean_from_untested(_, _, _)
clean_from_untested(i, f, failed) ==
    IF i > Len(clean_targets) THEN [fs |-> f, log |-> <<>>]
    ELSE
        LET p == clean_targets[i]
        IN
        IF ~Exists(f, p) \/ p \in failed THEN
            LET rest == clean_from_untested(i + 1, f, failed)
            IN [fs |-> rest.fs,
                log |-> <<<<"warning", "Warning: Could not remove " \o p>>>> \o rest.log]
        ELSE
            LET rest == clean_from_untested(i + 1, Remove(f, p), failed)
            IN [fs |-> rest.fs,
                log |-> (IF tw.is_cli THEN <<<<"info", "Removed " \o p>>>> ELSE <<>>)
                        \o rest.log]

\* the loops of clean() from target i on (utils.py:656-674): a target that
\* exists is removed, or its removal fails and is logged; `failed` are the
\* targets whose os.remove or shutil.rmtree raises
RECURSIVE clean_from(_, _, _)
clean_from(i, f, failed) ==
    IF i > Len(clean_targets) THEN [fs |-> f, log |-> <<>>]
    ELSE
        LET p == clean_targets[i]
        IN
        IF ~Exists(f, p) THEN clean_from(i + 1, f, failed)
        ELSE IF p \in failed THEN
            LET rest == clean_from(i + 1, f, failed)
            IN [fs |-> rest.fs,
                log |-> <<<<"warning", "Warning: Could not remove " \o p>>>> \o rest.log]
        ELSE
            LET rest == clean_from(i + 1, Remove(f, p), failed)
            IN [fs |-> rest.fs,
                log |-> (IF tw.is_cli THEN <<<<"info", "Removed " \o p>>>> ELSE <<>>)
                        \o rest.log]

\* the targets of clean() that exist in f
CleanExisting(f) ==
    {clean_targets[i] : i \in {j \in 1..Len(clean_targets) : Exists(f, clean_targets[j])}}

\* a call of tailwind_command.clean()
TwClean ==
    \E failed \in SUBSET CleanExisting(fs) :
        LET res == clean_from(1, fs, failed)
        IN
        /\ fs' = res.fs
        /\ ret' = [op |-> "clean", val |-> Self]
        /\ eff' = [TwEffects(0, <<>>,
                        <<<<"info", "Cleaning up generated files...">>>> \o res.log
                        \o <<<<"info", "Cleanup completed.">>>>)
                   EXCEPT !.failed = failed,
                          !.removed = Cardinality(CleanExisting(fs) \ failed)]
        /\ UNCHANGED <<now, plugin, host, cache, nm, tw, job, procs>>


\* the user edits, or creates, a scaffold file
UserEdits ==
    /\ \E p \in {tw.input_css_path, tw.config_js_path} :
          /\ fs[p] # File(UserText, now)
          /\ fs' = [fs EXCEPT ![p] = File(UserText, now)]
    /\ ret' = NoCall
    /\ eff' = NoEffects
    /\ UNCHANGED <<now, plugin, host, cache, nm, tw, job, procs>>

\* the user deletes a file of the working directory
UserRemoves ==
    /\ \E p \in WorkPaths :
          /\ Exists(fs, p)
          /\ fs' = Remove(fs, p)
    /\ ret' = NoCall
    /\ eff' = NoEffects
    /\ UNCHANGED <<now, plugin, host, cache, nm, tw, job, procs>>

\* the runtimes a TailwindCommand is constructed with: the system's node, a
\* downloaded node with npm and npx beside it, a downloaded node without them
TwNodeDir == Join(node_dir_path, <<"node-v18.17.0-linux-x64", "bin">>)
TwRuntimes ==
    {[node_path |-> <<>>, npm_path |-> <<"npm">>, npx_path |-> <<"npx">>,
      files |-> EmptyFiles],
     [node_path |-> Join(TwNodeDir, <<"node">>),
      npm_path |-> Join(TwNodeDir, <<"npm">>),
      npx_path |-> Join(TwNodeDir, <<"npx">>),
      files |-> [q \in {Join(TwNodeDir, <<"node">>), Join(TwNodeDir, <<"npm">>),
                        Join(TwNodeDir, <<"npx">>)} |-> CacheFile(TRUE, TRUE)]],
     [node_path |-> Join(TwNodeDir, <<"node">>),
      npm_path |-> Join(TwNodeDir, <<"bin", "npm">>),
      npx_path |-> Join(TwNodeDir, <<"bin", "npx">>),
      files |-> [q \in {Join(TwNodeDir, <<"node">>)} |-> CacheFile(TRUE, TRUE)]]}

\* the content globs a TailwindCommand is constructed with
ContentPaths == {<<"**/*.py">>, <<"*.html", "*.js">>}

InitTw ==
    /\ now = 0
    /\ fs = EmptyDir
    /\ plugin = IdlePlugin
    /\ host = IdleHost
    /\ nm = IdleNm
    /\ \E r \in TwRuntimes, c \in ContentPaths, cli \in BOOLEAN :
          /\ cache = [dir |-> r.files # EmptyFiles, files |-> r.files]
          /\ tw = [node_path |-> r.node_path, npm_path |-> r.npm_path,
                   npx_path |-> r.npx_path, content_path |-> c,
                   input_css_path |-> InputCss, output_css_path |-> OutputCss,
                   config_js_path |-> ConfigJs, is_cli |-> cli, theme_config |-> PyDict(<<>>)]
    /\ ret = NoCall
    /\ eff = NoEffects
    /\ job = IdleJob
    /\ procs = IdleProcs

NextTw ==
    \/ CreateDefaultInputTailwindcss
    \/ CreateDefaultTailwindcssConfig
    \/ TwInit
    \/ TwBuild
    \/ TwInstall
    \/ TwWatch
    \/ TwClean
    \/ UserEdits
    \/ UserRemoves

SpecTw == InitTw /\ [][NextTw]_vars

\* build() and clean() on any working directory, with the output stylesheet
\* at a path of its own, at the path of the input stylesheet, or inside
\* node_modules
OutputPaths == {OutputCss, InputCss, NestedOutput}
WorkDirs ==
    {f \in [WorkPaths -> {Absent, File(UserText, 0)}] :
        Exists(f, NestedOutput) => Exists(f, NodeModules)}

InitOut ==
    /\ now = 0
    /\ fs \in WorkDirs
    /\ plugin = IdlePlugin
    /\ host = IdleHost
    /\ cache = IdleCache
    /\ nm = IdleNm
    /\ \E o \in OutputPaths, cli \in BOOLEAN :
          tw = [IdleTw EXCEPT !.output_css_path = o, !.is_cli = cli]
    /\ ret = NoCall
    /\ eff = NoEffects
    /\ job = IdleJob
    /\ procs = IdleProcs

NextOut ==
    \/ TwBuild
    \/ TwClean

SpecOut == InitOut /\ [][NextOut]_vars

----------------------------------------------------------------------------
(* The serializer and the configuration writer on themes: a TailwindCommand *)
(* constructed with a theme, serialized and written.                        *)

\* the values of a theme that hold no other value
Scalars == {PyStr("#fff"), PyBool(TRUE), PyBool(FALSE), PyInt(42), PyFloat("3.14"), PyNone}
\* the elements of the lists tried
Elements ==
    Scalars \cup {PyList(<<>>), PyList(<<PyStr("a"), PyBool(TRUE)>>),
                  PyDict(<<>>), PyDict(<<<<"name", PyStr("dark")>>>>)}
Lists ==
    {PyList(<<>>)} \cup {PyList(<<e>>) : e \in Elements}
    \cup {PyList(<<e, f>>) : e \in Elements, f \in {PyStr("b"), PyInt(7)}}
\* the dicts tried inside a theme
InnerDicts ==
    {PyDict(<<>>)} \cup {PyDict(<<<<"500", v>>>>) : v \in Scalars}
    \cup {PyDict(<<<<"brand", PyDict(<<<<"50", PyStr("#eff6ff")>>>>)>>,
                   <<"list", l>>>>) : l \in {PyList(<<>>), PyList(<<PyInt(1), PyInt(2)>>)}}
\* the themes a TailwindCommand is constructed with
Themes ==
    {PyDict(<<>>)}
    \cup {PyDict(<<<<"colors", v>>>>) : v \in Scalars \cup Lists \cup InnerDicts}
    \cup {PyDict(<<<<"colors", v>>, <<"spacing", w>>>>) :
             v \in InnerDicts, w \in {PyStr("1rem"), PyList(<<PyBool(TRUE)>>)}}
    \cup {PyDict(<<<<k, PyStr("1536px")>>>>) : k \in {"primary-color", "2xl", "fontFamily"}}
    \cup {PyDict(<<<<"fontFamily", v>>>>) :
             v \in {PyStr("\"Inter\", sans-serif"),
                    PyList(<<PyStr("Inter"), PyStr("sans-serif")>>)}}

\* the content globs a TailwindCommand is constructed with
JsContentPaths == {<<>>, <<"**/*.py">>, <<"*.html", "*.js">>}

\* a call of dict_to_js_object(theme_config)
DictToJsObject ==
    /\ ret' = [op |-> "dict_to_js_object",
               val |-> [kind |-> "text", data |-> dict_to_js_object(tw.theme_config, 0)]]
    /\ eff' = NoEffects
    /\ UNCHANGED <<now, fs, plugin, host, cache, nm, tw, job, procs>>

InitJs ==
    /\ now = 0
    /\ fs = EmptyDir
    /\ plugin = IdlePlugin
    /\ host = IdleHost
    /\ cache = IdleCache
    /\ nm = IdleNm
    /\ \E c \in JsContentPaths, t \in Themes :
          tw = [IdleTw EXCEPT !.content_path = c, !.theme_config = t]
    /\ ret = NoCall
    /\ eff = NoEffects
    /\ job = IdleJob
    /\ procs = IdleProcs

NextJs ==
    \/ DictToJsObject
    \/ CreateDefaultTailwindcssConfig

SpecJs == InitJs /\ [][NextJs]_vars

----------------------------------------------------------------------------
(* A run of the plugin or of the CLI: _TailwindCSSPlugin._build_tailwindcss *)
(* (plugin.py:131-185), _TailwindCLI.build_tailwindcss (cli.py:182-249) and *)
(* _TailwindCLI.watch_tailwindcss (cli.py:251-351). A run is synchronous:   *)
(* job.pc is the call it is at, and nothing else moves until it is back at  *)
(* "idle". The functions the run calls are imported from utils.py, which    *)
(* defines them as methods of NodeManager and TailwindCommand.              *)

Contexts == {"plugin", "cli_build", "cli_watch"}

\* NodeManager.npm_path, NodeManager.npx_path (utils.py:278-317): the
\* companion beside the executable, else in bin/ beneath; an alias when node
\* is the system's
companion_path(c, system, node_path, command) ==
    IF node_path # <<>> THEN
        LET node_dir == Dirname(node_path)
            beside == Join(node_dir, <<get_command_alias_by_platform(system, command)>>)
        IN IF ~InCache(c, beside)
           THEN Join(node_dir, <<"bin", get_command_alias_by_platform(system, command)>>)
           ELSE beside
    ELSE <<get_command_alias_by_platform(system, command)>>

\* what the run hands to the toolchain functions once it has node_path
Session(c, system, node_path, is_cli) ==
    [tw EXCEPT !.node_path = node_path,
                   !.npm_path = companion_path(c, system, node_path, "npm"),
                   !.npx_path = companion_path(c, system, node_path, "npx"),
                   !.is_cli = is_cli]

\* the step the run is at is entered
Enter(j, step) == [j EXCEPT !.steps = Append(@, step)]

\* the run's except clause with the exception propagating instead
on_exception_propagating(j, step, message) ==
    [j EXCEPT !.pc = "idle", !.outcome = "raised", !.failed = step]

\* except Exception as e: warnings.warn(...) (plugin.py:184-185,
\* cli.py:248-249, 350-351): the run ends and returns
on_exception(j, step, message) ==
    [j EXCEPT !.pc = "idle", !.outcome = "returned", !.failed = step,
              !.warnings = Append(@, (IF j.ctx = "plugin"
                                      THEN "Failed to build Tailwind CSS: "
                                      ELSE "Error: ") \o message)]

\* the run falls off the end of its try block and returns
Finish(j) == [j EXCEPT !.pc = "idle", !.outcome = "returned"]

\* how the run before the one starting ended, kept for the properties: with
\* a clean after a build that exited nonzero or zero, otherwise, or no run yet
HowEnded(j) ==
    IF j.started = 0 THEN "none"
    ELSE IF ~(\E i \in 1..Len(j.steps) : j.steps[i] = "clean") THEN "other"
    ELSE IF \E i \in 1..Len(j.warnings), e \in Stderrs :
               j.warnings[i] = "Tailwind CSS build failed: " \o e
         THEN "cleaned_failed_build"
    ELSE "cleaned"

\* the hook of the plugin fires, or the CLI is run: the run starts by
\* asking for Node.js (plugin.py:98-100, 138-144; cli.py:209-211, 276-278)
Trigger ==
    /\ job.pc = "idle"
    /\ job.started < MaxRuns
    /\ job' = [job EXCEPT !.pc = "node", !.steps = <<>>, !.warnings = <<>>,
                          !.outcome = "running", !.failed = "none",
                          !.started = @ + 1, !.before = HowEnded(job)]
    /\ nm' = [download_node |-> job.download_node, node_version |-> "18.17.0",
              is_cli |-> job.ctx # "plugin", log_init |-> TRUE]
    /\ ret' = NoCall
    /\ eff' = NoEffects
    /\ UNCHANGED <<now, fs, plugin, host, cache, tw, procs>>

\* node_path = check_or_download_nodejs(...)
StepNode ==
    /\ job.pc = "node"
    /\ check_or_download_nodejs("check_or_download_nodejs")
    /\ IF ret'.val.kind = "raise" THEN
          /\ job' = on_exception(Enter(job, "node"), "node", ret'.val.message)
          /\ tw' = tw
       ELSE
          /\ job' = [Enter(job, "node") EXCEPT !.pc = "install"]
          /\ tw' = Session(cache', host.system,
                           IF ret'.val = System THEN <<>> ELSE ret'.val.path,
                           nm.is_cli)
    /\ host' = Noticed(host, eff'.log)
    /\ UNCHANGED <<now, fs, plugin, procs>>

\* install_tailwindcss(node_path): the probe, and the install when the probe
\* fails; a failure of either is an exception of the run
StepInstall ==
    /\ job.pc = "install"
    /\ \E probe \in ProbeOutcomes(check_tailwindcss_cmd) :
          IF probe.raised THEN
              /\ fs' = fs
              /\ eff' = TwEffects(0, <<probe>>, <<>>)
              /\ ret' = [op |-> "install_tailwindcss",
                         val |-> Raise("OSError", "could not run")]
              /\ job' = on_exception(Enter(job, "install"), "install", "could not run")
          ELSE IF probe.returncode = 0 THEN
              /\ fs' = fs
              /\ eff' = TwEffects(0, <<probe>>, <<>>)
              /\ ret' = [op |-> "install_tailwindcss", val |-> [kind |-> "none"]]
              /\ job' = [Enter(job, "install") EXCEPT !.pc = "scaffold"]
          ELSE
              \E r \in Outcomes(install_cmd) :
                  /\ eff' = TwEffects(0, <<probe, r>>, <<>>)
                  /\ IF ~r.raised /\ r.returncode = 0 THEN
                        /\ fs' = write_file(write_file(write_file(fs,
                                     PackageJson, <<"{devDependencies}">>),
                                     PackageLock, <<"{lock}">>),
                                     NodeModules, <<"tailwindcss">>)
                        /\ ret' = [op |-> "install_tailwindcss", val |-> [kind |-> "none"]]
                        /\ job' = [Enter(job, "install") EXCEPT !.pc = "scaffold"]
                     ELSE
                        /\ fs' = fs
                        /\ ret' = [op |-> "install_tailwindcss",
                                   val |-> Raise("CalledProcessError",
                                                 IF r.raised THEN "could not run"
                                                 ELSE r.stderr)]
                        /\ job' = on_exception(Enter(job, "install"), "install",
                                               IF r.raised THEN "could not run"
                                               ELSE r.stderr)
    /\ UNCHANGED <<now, plugin, host, cache, nm, tw, procs>>

\* what a write that raises OSError leaves at the path: nothing, or the file
\* open() had created
FailedWrites(f, path) == {f, [f EXCEPT ![path] = File(<<>>, now)]}

\* the step that follows the scaffold files
after_scaffold(j) ==
    IF j.ctx = "cli_watch" THEN "watch"
    ELSE IF j.ctx = "cli_init" THEN "idle"
    ELSE "build"

\* the configuration file, then the input stylesheet, each written if it does
\* not exist (plugin.py:150-156, cli.py:216-226, 283-293); a write may fail
StepScaffold ==
    /\ job.pc = "scaffold"
    /\ \/ \* both are there, or written
          /\ fs' = (LET f1 == IF ~Exists(fs, tw.config_js_path)
                              THEN create_default_tailwindcss_config(fs) ELSE fs
                    IN IF ~Exists(f1, tw.input_css_path)
                       THEN create_default_input_tailwindcss(f1) ELSE f1)
          /\ eff' = TwEffects(Written(fs, fs'), <<>>, <<>>)
          /\ ret' = [op |-> "create_default", val |-> [kind |-> "none"]]
          /\ job' = IF after_scaffold(job) = "idle"
                     THEN Finish(Enter(job, "scaffold"))
                     ELSE [Enter(job, "scaffold") EXCEPT !.pc = after_scaffold(job)]
       \/ \* writing the configuration file fails
          /\ ~Exists(fs, tw.config_js_path)
          /\ fs' \in FailedWrites(fs, tw.config_js_path)
          /\ eff' = TwEffects(0, <<>>, <<>>)
          /\ ret' = [op |-> "create_default_tailwindcss_config",
                     val |-> Raise("OSError", "could not write")]
          /\ job' = on_exception(Enter(job, "scaffold"), "scaffold", "could not write")
       \/ \* writing the input stylesheet fails
          /\ ~Exists(fs, tw.input_css_path)
          /\ LET f1 == IF ~Exists(fs, tw.config_js_path)
                       THEN create_default_tailwindcss_config(fs) ELSE fs
             IN fs' \in FailedWrites(f1, tw.input_css_path)
          /\ eff' = TwEffects(0, <<>>, <<>>)
          /\ ret' = [op |-> "create_default_input_tailwindcss",
                     val |-> Raise("OSError", "could not write")]
          /\ job' = on_exception(Enter(job, "scaffold"), "scaffold", "could not write")
    /\ UNCHANGED <<now, plugin, host, cache, nm, tw, procs>>

\* get_build_tailwind_cmd(node_path, input_css_path, output_css_path,
\* config_js_path)
get_build_tailwind_cmd ==
    companion_cmd(tw.npx_path,
                  <<Arg("tailwindcss"), Arg("-i"), Arg(tw.input_css_path),
                    Arg("-o"), Arg(tw.output_css_path),
                    Arg("-c"), Arg(tw.config_js_path)>>)

\* after the build, clean whatever the build did
after_build_always_clean(j) == "clean"

\* clean only after a build that exited zero
after_build_unless_failed(j) ==
    IF j.clean_after /\ ~(\E i \in 1..Len(j.warnings), e \in Stderrs :
                             j.warnings[i] = "Tailwind CSS build failed: " \o e)
    THEN "clean" ELSE "idle"

\* the step that follows the build: if self.clean_after (plugin.py:177,
\* cli.py:239)
after_build(j) == IF j.clean_after THEN "clean" ELSE "idle"

\* subprocess.run(cmd, capture_output=True, text=True) of the build and what
\* follows it (plugin.py:169-174, cli.py:231-236): a nonzero exit is warned
\* about and the run goes on
StepBuild ==
    /\ job.pc = "build"
    /\ \E r \in Outcomes(get_build_tailwind_cmd) :
          /\ eff' = TwEffects(0, <<r>>, <<>>)
          /\ IF r.raised THEN
                /\ fs' = fs
                /\ ret' = [op |-> "subprocess.run", val |-> Raise("OSError", "could not run")]
                /\ job' = on_exception(Enter(job, "build"), "build", "could not run")
             ELSE
                /\ fs' = IF r.returncode = 0
                         THEN write_file(fs, tw.output_css_path, <<"compiled">>)
                         ELSE fs
                /\ ret' = [op |-> "subprocess.run", val |-> [kind |-> "none"]]
                /\ job' = LET j == [Enter(job, "build") EXCEPT
                                       !.warnings = IF r.returncode # 0
                                                    THEN Append(@, "Tailwind CSS build failed: "
                                                                   \o r.stderr)
                                                    ELSE @]
                          IN IF after_build(j) = "clean"
                             THEN [j EXCEPT !.pc = "clean"]
                             ELSE Finish(j)
    /\ UNCHANGED <<now, plugin, host, cache, nm, tw, procs>>

\* clean_generated_files(input_css_path, config_js_path, is_cli); at most
\* one removal of a run fails
StepClean ==
    /\ job.pc = "clean"
    /\ \E failed \in {S \in SUBSET CleanExisting(fs) : Cardinality(S) <= 1} :
          LET res == clean_from(1, fs, failed)
          IN
          /\ fs' = res.fs
          /\ ret' = [op |-> "clean_generated_files", val |-> [kind |-> "none"]]
          /\ eff' = [TwEffects(0, <<>>, res.log)
                     EXCEPT !.failed = failed,
                            !.removed = Cardinality(CleanExisting(fs) \ failed)]
    /\ job' = Finish(Enter(job, "clean"))
    /\ UNCHANGED <<now, plugin, host, cache, nm, tw, procs>>

\* the words of every compile after the program
CompileArgs ==
    <<Arg("tailwindcss"), Arg("-i"), Arg(tw.input_css_path),
      Arg("-o"), Arg(tw.output_css_path), Arg("-c"), Arg(tw.config_js_path)>>

\* the argument vector of _TailwindCLI.watch_tailwindcss (cli.py:297-343)
cli_watch_cmd ==
    IF tw.node_path # <<>> THEN
        LET node_dir == Dirname(tw.node_path)
            beside == Join(node_dir, <<get_command_alias_by_platform(host.system, "npx")>>)
            npx_path == IF ~InCache(cache, beside)
                        THEN Join(node_dir, <<"bin",
                                  get_command_alias_by_platform(host.system, "npx")>>)
                        ELSE beside
        IN IF InCache(cache, npx_path)
           THEN <<tw.node_path, npx_path>> \o CompileArgs \o <<Arg("--watch")>>
           ELSE <<tw.node_path, <<get_command_alias_by_platform(host.system, "npx")>>>>
                \o CompileArgs \o <<Arg("--watch")>>
    ELSE <<<<get_command_alias_by_platform(host.system, "npx")>>>>
         \o CompileArgs \o <<Arg("--watch")>>

\* subprocess.run(cmd) of the CLI's watch (cli.py:344-351): it blocks until
\* the child ends or the user interrupts
StepWatch ==
    /\ job.pc = "watch"
    /\ \E r \in {NotStarted(cli_watch_cmd), Interrupted(cli_watch_cmd),
                 Completed(cli_watch_cmd, 0, "")} :
          /\ eff' = TwEffects(0, <<r>>, <<>>)
          /\ \E compiled \in (IF r = NotStarted(cli_watch_cmd) THEN {FALSE} ELSE BOOLEAN) :
                fs' = IF compiled
                      THEN write_file(fs, tw.output_css_path, <<"compiled">>)
                      ELSE fs
          /\ IF r.raised /\ ~WasInterrupted(r) THEN
                /\ ret' = [op |-> "subprocess.run", val |-> Raise("OSError", "could not run")]
                /\ job' = on_exception(Enter(job, "watch"), "watch", "could not run")
             ELSE
                /\ ret' = [op |-> "subprocess.run", val |-> [kind |-> "none"]]
                /\ job' = Finish(Enter(job, "watch"))
    /\ UNCHANGED <<now, plugin, host, cache, nm, tw, procs>>

\* open(path, 'r', encoding='utf-8') and read() on a path that exists: the
\* text, or an exception (the path is a directory, may not be read, or does
\* not hold UTF-8)
ReadOutcomes(file) ==
    {[kind |-> "text", data |-> file.data], Raise("OSError", "could not read")}

Response(body, status, mimetype) ==
    [kind |-> "Response", body |-> body, status |-> status, mimetype |-> mimetype]

\* serve_tailwindcss (plugin.py:102-112) on the working directory f, `read`
\* being what reading the output gives
serve_tailwindcss(f, read) ==
    IF Exists(f, plugin.output_css_path) THEN
        IF read.kind = "raise" THEN read
        ELSE Response(read.data, 200, "text/css")
    ELSE Response(<<"CSS file not found">>, 404, "text/plain")

\* a GET of /_tailwind/tailwind.css while the application serves
ServeTailwindcss ==
    /\ job.pc = "idle"
    /\ job.ctx = "plugin"
    /\ \E read \in (IF Exists(fs, plugin.output_css_path)
                    THEN ReadOutcomes(fs[plugin.output_css_path])
                    ELSE {[kind |-> "none"]}) :
          ret' = [op |-> "serve_tailwindcss",
                  val |-> serve_tailwindcss(fs, read)]
    /\ eff' = NoEffects
    /\ UNCHANGED <<now, fs, plugin, host, cache, nm, tw, job, procs>>

\* the systems a run is tried on
RunSystems == {"Linux", "Windows", "FreeBSD"}

InitRun ==
    /\ now = 0
    /\ fs = EmptyDir
    /\ plugin = [IdlePlugin EXCEPT !.skip_build_time_threshold = RunTime - 1]
    /\ \E s \in RunSystems, n \in {"none", "ok"} :
          host = [system |-> s, machine |-> "x86_64", node |-> n, notices |-> 0]
    /\ cache = IdleCache
    /\ nm = IdleNm
    /\ tw = IdleTw
    /\ ret = NoCall
    /\ eff = NoEffects
    /\ \E c \in Contexts, d \in BOOLEAN, a \in BOOLEAN :
          job = [IdleJob EXCEPT !.ctx = c, !.download_node = d, !.clean_after = a]
    /\ procs = IdleProcs

NextRun ==
    \/ Trigger
    \/ StepNode
    \/ StepInstall
    \/ StepScaffold
    \/ StepBuild
    \/ StepClean
    \/ StepWatch
    \/ ServeTailwindcss
    \/ (job.pc = "idle" /\ now < RunTime /\ Tick)
    \/ (job.pc = "idle" /\ RemoveOutput)

SpecRun == InitRun /\ [][NextRun]_vars

----------------------------------------------------------------------------
(* The command line: _TailwindCLI.run (cli.py:28-129). The text of           *)
(* --tailwind-theme-config is a sequence of JSON tokens; json_loads is the   *)
(* parser of json.loads on them. run() hands the parsed theme and the other  *)
(* arguments to the method of the subcommand, whose steps are those of a run *)
(* above; clean goes to clean_generated_files at once.                       *)

\* the JSON tokens of the model: string literals, numbers and the three names
JsonStrings == {"\"colors\"", "\"primary\"", "\"#ff0000\"", "\"spacing\""}
JsonNumbers == {"1", "2"}
Unquote(tok) ==
    CASE tok = "\"colors\"" -> "colors"
      [] tok = "\"primary\"" -> "primary"
      [] tok = "\"#ff0000\"" -> "#ff0000"
      [] tok = "\"spacing\"" -> "spacing"
NumberOf(tok) == IF tok = "1" THEN 1 ELSE 2

\* a parse that stopped with a value and the position after it, or failed
Parsed(val, next) == [ok |-> TRUE, val |-> val, next |-> next]
ParseError == [ok |-> FALSE, val |-> PyNone, next |-> 0]

\* d[key] = value on the pairs of a dict: a key that is there keeps its place
DictPut(items, key, value) ==
    IF \E j \in 1..Len(items) : items[j][1] = key
    THEN [j \in 1..Len(items) |-> IF items[j][1] = key THEN <<key, value>> ELSE items[j]]
    ELSE Append(items, <<key, value>>)

\* the JSON grammar from token i on: a value, the members of an object after
\* its brace or a comma, the elements of an array after its bracket or a comma
RECURSIVE parse_value(_, _), parse_members(_, _, _), parse_elements(_, _, _)
parse_value(t, i) ==
    IF i > Len(t) THEN ParseError
    ELSE IF t[i] = "{" THEN
        IF i + 1 <= Len(t) /\ t[i + 1] = "}" THEN Parsed(PyDict(<<>>), i + 2)
        ELSE parse_members(t, i + 1, <<>>)
    ELSE IF t[i] = "[" THEN
        IF i + 1 <= Len(t) /\ t[i + 1] = "]" THEN Parsed(PyList(<<>>), i + 2)
        ELSE parse_elements(t, i + 1, <<>>)
    ELSE IF t[i] \in JsonStrings THEN Parsed(PyStr(Unquote(t[i])), i + 1)
    ELSE IF t[i] \in JsonNumbers THEN Parsed(PyInt(NumberOf(t[i])), i + 1)
    ELSE IF t[i] = "true" THEN Parsed(PyBool(TRUE), i + 1)
    ELSE IF t[i] = "false" THEN Parsed(PyBool(FALSE), i + 1)
    ELSE IF t[i] = "null" THEN Parsed(PyNone, i + 1)
    ELSE ParseError
parse_members(t, i, acc) ==
    IF i + 1 > Len(t) \/ t[i] \notin JsonStrings \/ t[i + 1] # ":" THEN ParseError
    ELSE
        LET r == parse_value(t, i + 2)
        IN
        IF ~r.ok \/ r.next > Len(t) THEN ParseError
        ELSE IF t[r.next] = ","
            THEN parse_members(t, r.next + 1, DictPut(acc, Unquote(t[i]), r.val))
        ELSE IF t[r.next] = "}"
            THEN Parsed(PyDict(DictPut(acc, Unquote(t[i]), r.val)), r.next + 1)
        ELSE ParseError
parse_elements(t, i, acc) ==
    LET r == parse_value(t, i)
    IN
    IF ~r.ok \/ r.next > Len(t) THEN ParseError
    ELSE IF t[r.next] = "," THEN parse_elements(t, r.next + 1, Append(acc, r.val))
    ELSE IF t[r.next] = "]" THEN Parsed(PyList(Append(acc, r.val)), r.next + 1)
    ELSE ParseError

\* json.loads(text): one value and nothing after it, or JSONDecodeError
json_loads(t) ==
    LET r == parse_value(t, 1)
    IN IF r.ok /\ r.next = Len(t) + 1 THEN r ELSE ParseError

\* the theme argument with a JSONDecodeError left to propagate out of run()
parse_theme_config_strict(arg) ==
    IF ~arg.given \/ arg.text = <<>> THEN
        [theme |-> PyNone, warned |-> <<>>, raised |-> FALSE]
    ELSE
        LET r == json_loads(arg.text)
        IN [theme |-> r.val, warned |-> <<>>, raised |-> ~r.ok]

\* theme_config of run() (cli.py:84-91): None without the argument or with an
\* empty one, the parsed value, or None and a warning for text that is not
\* JSON
parse_theme_config(arg) ==
    IF ~arg.given \/ arg.text = <<>> THEN
        [theme |-> PyNone, warned |-> <<>>, raised |-> FALSE]
    ELSE
        LET r == json_loads(arg.text)
        IN IF r.ok THEN [theme |-> r.val, warned |-> <<>>, raised |-> FALSE]
           ELSE [theme |-> PyNone, warned |-> <<"Invalid JSON for theme config">>,
                 raised |-> FALSE]

\* the subcommands, as the contexts of a run
Commands == {"cli_init", "cli_build", "cli_watch", "cli_clean"}

\* every subcommand asking for Node.js first
first_step_with_runtime(command) == "node"

\* the call each subcommand starts with: clean calls clean_generated_files
\* at once (cli.py:124-129), the others ask for Node.js first (cli.py:153-155,
\* 209-211, 276-278)
first_step(command) == IF command = "cli_clean" THEN "clean" ELSE "node"

\* _TailwindCLI.run: the arguments are read, the theme is parsed and the
\* method of the subcommand is called (cli.py:82-129); theme_config or {} is
\* what the toolchain keeps of the theme (utils.py:355)
CliRun ==
    /\ job.pc = "idle"
    /\ job.started < MaxRuns
    /\ LET parsed == parse_theme_config(job.theme_arg)
           called == [job EXCEPT !.steps = <<>>, !.warnings = parsed.warned,
                                 !.failed = "none", !.started = @ + 1,
                                 !.before = HowEnded(job)]
       IN
       IF parsed.raised THEN
           /\ job' = [called EXCEPT !.outcome = "raised", !.failed = "run"]
           /\ UNCHANGED <<nm, tw>>
       ELSE
           /\ job' = [called EXCEPT !.outcome = "running",
                                    !.pc = first_step(job.ctx)]
           /\ nm' = IF first_step(job.ctx) = "clean" THEN nm
                    ELSE [download_node |-> job.download_node, node_version |-> "18.17.0",
                          is_cli |-> TRUE, log_init |-> TRUE]
           /\ tw' = [IdleTw EXCEPT !.is_cli = TRUE,
                                   !.theme_config = IF parsed.theme = PyNone
                                                    THEN PyDict(<<>>) ELSE parsed.theme]
    /\ ret' = NoCall
    /\ eff' = NoEffects
    /\ UNCHANGED <<now, fs, plugin, host, cache, procs>>

\* the texts given for --tailwind-theme-config: objects, and texts that are
\* not JSON
ThemeTexts ==
    {<<>>,
     <<"{", "}">>,
     <<"{", "\"colors\"", ":", "{", "\"primary\"", ":", "\"#ff0000\"", "}", "}">>,
     <<"{", "\"colors\"", ":", "{", "\"primary\"", ":", "\"#ff0000\"", "}">>,
     <<"{", "\"colors\"", ":", "[", "1", ",", "true", "]", ",", "\"spacing\"", ":", "null", "}">>,
     <<"{", "\"colors\"", ":", "1", ",", "}">>,
     <<"{", "\"colors\"", "\"primary\"", "}">>,
     <<"{", "\"colors\"", ":", "1", "}", "}">>,
     <<"{", "\"colors\"", ":", "1", ",", "\"colors\"", ":", "2", "}">>,
     <<"{", "\"colors\"", ":", "[", "1", ",", "]", "}">>,
     <<"}">>}
ThemeArgs ==
    {[given |-> FALSE, text |-> <<>>]} \cup {[given |-> TRUE, text |-> t] : t \in ThemeTexts}

\* the working directory the command is run in: empty, or with what an
\* earlier build left
CliDirs ==
    {EmptyDir,
     [p \in WorkPaths |-> IF p = NodeModules THEN Absent ELSE File(UserText, 0)],
     [p \in WorkPaths |-> File(UserText, 0)]}

InitCli ==
    /\ now = 0
    /\ fs \in CliDirs
    /\ plugin = IdlePlugin
    /\ \E n \in {"none", "ok"} : host = [IdleHost EXCEPT !.node = n]
    /\ cache = IdleCache
    /\ nm = IdleNm
    /\ tw = IdleTw
    /\ ret = NoCall
    /\ eff = NoEffects
    /\ \E c \in Commands, d \in BOOLEAN, a \in BOOLEAN, arg \in ThemeArgs :
          job = [IdleJob EXCEPT !.ctx = c, !.download_node = d, !.clean_after = a,
                                !.theme_arg = arg]
    /\ procs = IdleProcs

NextCli ==
    \/ CliRun
    \/ StepNode
    \/ StepInstall
    \/ StepScaffold
    \/ StepBuild
    \/ StepClean
    \/ StepWatch

SpecCli == InitCli /\ [][NextCli]_vars

----------------------------------------------------------------------------
(* The properties NodeManager.npm_path and NodeManager.npx_path              *)
(* (utils.py:265-317). Each reads the property node_path, which calls        *)
(* check_or_download_nodejs, once for its test and once more for dirname:    *)
(* job.pc is "dirname" between the two, job.ctx the tool asked for, and      *)
(* what the property returns goes to the session as its npm_path or          *)
(* npx_path.                                                                 *)

Tools == {"npm", "npx"}

\* the session with the path of the tool
WithTool(t, tool, path) ==
    IF tool = "npm" THEN [t EXCEPT !.npm_path = path] ELSE [t EXCEPT !.npx_path = path]

\* the property returns or raises: the resolution is over
Resolved(j, outcome, failed) ==
    [j EXCEPT !.pc = "idle", !.outcome = outcome, !.failed = failed]

\* if self.node_path: (utils.py:285, 306), and the else branch (utils.py:293-294,
\* 314-315)
ResolveTest(tool) ==
    /\ job.pc = "idle"
    /\ check_or_download_nodejs("node_path")
    /\ IF ret'.val.kind = "raise" THEN
          /\ job' = Resolved([job EXCEPT !.ctx = tool], "raised", "node_path")
          /\ tw' = tw
       ELSE IF ret'.val = System THEN
          /\ job' = Resolved([job EXCEPT !.ctx = tool], "returned", "none")
          /\ tw' = WithTool(tw, tool, <<get_command_alias_by_platform(host.system, tool)>>)
       ELSE
          /\ job' = [job EXCEPT !.ctx = tool, !.pc = "dirname", !.outcome = "running",
                                !.failed = "none"]
          /\ tw' = tw
    /\ host' = Noticed(host, eff'.log)
    /\ UNCHANGED <<now, fs, plugin, procs>>

\* node_dir = os.path.dirname(self.node_path) and the companion in it
\* (utils.py:287-291, 308-312): os.path.dirname(None) raises TypeError
ResolveDirname ==
    /\ job.pc = "dirname"
    /\ check_or_download_nodejs("node_path")
    /\ IF ret'.val.kind = "raise" THEN
          /\ job' = Resolved(job, "raised", "node_path")
          /\ tw' = tw
       ELSE IF ret'.val = System THEN
          /\ job' = Resolved(job, "raised", "TypeError")
          /\ tw' = tw
       ELSE
          /\ job' = Resolved(job, "returned", "none")
          /\ tw' = WithTool(tw, job.ctx,
                            companion_path(cache', host.system, ret'.val.path, job.ctx))
    /\ host' = Noticed(host, eff'.log)
    /\ UNCHANGED <<now, fs, plugin, procs>>

InitPath ==
    /\ now = 0
    /\ fs = EmptyDir
    /\ plugin = IdlePlugin
    /\ \E s \in Systems, m \in Machines, n \in {"none", "ok"} :
          host = [system |-> s, machine |-> m, node |-> n, notices |-> 0]
    /\ cache = IdleCache
    /\ \E d \in BOOLEAN, c \in BOOLEAN :
          nm = [download_node |-> d, node_version |-> "18.17.0", is_cli |-> c,
                log_init |-> TRUE]
    /\ tw = IdleTw
    /\ ret = NoCall
    /\ eff = NoEffects
    /\ job = IdleJob
    /\ procs = IdleProcs

NextPath ==
    \/ \E tool \in Tools : ResolveTest(tool)
    \/ ResolveDirname
    \/ PathChanges

SpecPath == InitPath /\ [][NextPath]_vars

----------------------------------------------------------------------------
(* Claims about the NodeManager, under SpecNode.                           *)

\* the host's row of the platform table for the manager's version
HostRow == platform_table(Lower(host.system), Lower(host.machine), nm.node_version)
Supported == HostRow.supported
\* the executable the manager expects in the cache
ExpectedExecutable == node_executable_path(Lower(host.system), HostRow.node_dir)
\* this step is a call of check_or_download_nodejs
CalledEnsure == ret'.op = "check_or_download_nodejs" /\ vars' # vars
ReturnedFromEnsure == ret.op = "check_or_download_nodejs"
\* the host's system is none of macOS, Linux and Windows
OtherSystem == Lower(host.system) \notin {"darwin", "linux", "windows"}
\* the spec's error kinds, as the code raises them
RuntimeMissing(v) ==
    /\ v.kind = "raise"
    /\ v.exc = "RuntimeError"
    /\ v.message \in {MsgMissingCli, MsgMissingPlugin}
UnsupportedPlatform(v) ==
    /\ v.kind = "raise"
    /\ v.exc = "RuntimeError"
    /\ v.message = "Unsupported platform: " \o Lower(host.system)

(* C2, as stated: whenever the cache holds the expected executable, a call *)
(* with download requested makes no network request, extracts nothing and  *)
(* returns exactly the cached executable's path.                           *)
C2_AsStated ==
    [][(/\ CalledEnsure
        /\ nm.download_node
        /\ Supported
        /\ InCache(cache, ExpectedExecutable))
       => /\ eff'.net = 0
          /\ eff'.extracted = 0
          /\ ret'.val = Downloaded(ExpectedExecutable)]_vars

(* C2, amended: whenever the cache holds the expected executable, a call   *)
(* with download requested makes no network request and extracts nothing   *)
(* and leaves the cache as it is; it returns exactly the cached            *)
(* executable's path when node is not available on PATH, and System when   *)
(* it is.                                                                  *)
C2_CacheHit ==
    [][(/\ CalledEnsure
        /\ nm.download_node
        /\ Supported
        /\ InCache(cache, ExpectedExecutable))
       => /\ eff'.net = 0
          /\ eff'.extracted = 0
          /\ cache' = cache
          /\ ret'.val = IF check_nodejs_available(host)
                        THEN System
                        ELSE Downloaded(ExpectedExecutable)]_vars

\* a call has answered from the cache, after an earlier call had filled it
C2_Witness ==
    /\ ReturnedFromEnsure
    /\ nm.download_node
    /\ Supported
    /\ ~check_nodejs_available(host)
    /\ ret.val = Downloaded(ExpectedExecutable)
    /\ eff.net = 0
    /\ eff.log = <<>>

(* C3: whenever node is available on PATH, the call returns System, with   *)
(* download requested or not, and downloads nothing, extracts nothing and  *)
(* creates no cache directory.                                             *)
C3_PathWins ==
    [][(CalledEnsure /\ check_nodejs_available(host))
       => /\ ret'.val = System
          /\ eff'.net = 0
          /\ eff'.extracted = 0
          /\ eff'.mkdirs = 0
          /\ cache' = cache]_vars

\* System was returned to a manager asked to download, the cache still absent
C3_Witness ==
    /\ ReturnedFromEnsure
    /\ ret.val = System
    /\ nm.download_node
    /\ ~cache.dir

(* C4: when node is not available on PATH and download is not requested,   *)
(* the call raises the missing-runtime error, the same exception with the  *)
(* CLI's message in the CLI and the plugin's message in the plugin, two    *)
(* different messages; it returns no handle, makes no network request and  *)
(* writes nothing.                                                         *)
C4_MissingRaises ==
    [][(CalledEnsure /\ ~check_nodejs_available(host) /\ ~nm.download_node)
       => /\ RuntimeMissing(ret'.val)
          /\ ret'.val.message = (IF nm.is_cli THEN MsgMissingCli ELSE MsgMissingPlugin)
          /\ MsgMissingCli # MsgMissingPlugin
          /\ eff'.net = 0
          /\ eff'.extracted = 0
          /\ eff'.mkdirs = 0
          /\ cache' = cache
          /\ fs' = fs]_vars

\* the plugin's manager was refused, with a broken node on PATH
C4_Witness ==
    /\ ReturnedFromEnsure
    /\ ~nm.is_cli
    /\ ~nm.download_node
    /\ host.node = "broken"
    /\ ret.val = Raise("RuntimeError", MsgMissingPlugin)

(* C5, as stated: every Downloaded handle a call returns, from the cache   *)
(* or after a download, on every supported platform, names a file that     *)
(* exists and is executable when the call returns.                         *)
C5_HandleIsExecutable ==
    (ReturnedFromEnsure /\ ret.val.kind = "Downloaded")
        => IsExecutable(host.system, cache, ret.val.path)

(* C6, as stated: on every system other than macOS, Linux and Windows the  *)
(* call fails with the unsupported-platform error.                         *)
C6_AsStated ==
    (ReturnedFromEnsure /\ OtherSystem) => UnsupportedPlatform(ret.val)

(* C6, amended: on every system other than macOS, Linux and Windows, a     *)
(* call that reaches the download (node is not available on PATH and       *)
(* download is requested) fails with the unsupported-platform error; and   *)
(* every call on such a system, however it ends, has created no cache      *)
(* directory, written no file and made no network request.                 *)
C6_Unsupported ==
    [][(CalledEnsure /\ OtherSystem)
       => /\ (~check_nodejs_available(host) /\ nm.download_node)
                => UnsupportedPlatform(ret'.val)
          /\ eff'.net = 0
          /\ eff'.extracted = 0
          /\ eff'.mkdirs = 0
          /\ cache' = cache
          /\ fs' = fs]_vars

\* a download was refused on FreeBSD
C6_Witness ==
    /\ ReturnedFromEnsure
    /\ host.system = "FreeBSD"
    /\ nm.download_node
    /\ UnsupportedPlatform(ret.val)
    /\ cache = IdleCache

\* the archive suffix of the policy table's rows for a system
RowSuffix(system) ==
    CASE Lower(system) = "darwin" -> ".tar.gz"
      [] Lower(system) = "linux" -> ".tar.xz"
      [] Lower(system) = "windows" -> ".zip"

\* C22: on every row of the policy table, the system's name compared
\* case-insensitively, the URL a download asks for is non-empty and ends with
\* the row's archive suffix (.tar.gz on macOS, .tar.xz on Linux, .zip on
\* Windows), and the executable returned is bin/node under the platform
\* directory (the directory the archive is named after) on macOS and Linux
\* and node.exe directly under it on Windows.
C22_PolicyTable ==
    [][(CalledEnsure /\ ~OtherSystem) =>
          /\ eff'.net = 1 =>
                /\ eff'.url # <<>>
                /\ EndsWith(eff'.url, RowSuffix(host.system))
          /\ ret'.val.kind = "Downloaded" =>
                \E v \in Versions, tag \in {"darwin-arm64", "darwin-x64", "linux-arm64",
                                            "linux-x64", "win-x64"} :
                   LET platform_dir == Join(node_dir_path, <<"node-v" \o v \o "-" \o tag>>)
                   IN /\ ret'.val.path =
                            (IF Lower(host.system) = "windows"
                             THEN Join(platform_dir, <<"node.exe">>)
                             ELSE Join(platform_dir, <<"bin", "node">>))
                      /\ eff'.net = 1 => eff'.url[3] = platform_dir[Len(platform_dir)]]_vars

\* a download on Windows asked for a .zip and returned node.exe under the
\* platform directory
C22_Witness ==
    /\ ReturnedFromEnsure
    /\ host.system = "Windows"
    /\ eff.net = 1
    /\ EndsWith(eff.url, ".zip")
    /\ ret.val.kind = "Downloaded"
    /\ ret.val.path = Join(node_dir_path, <<"node-v" \o nm.node_version \o "-win-x64", "node.exe">>)

\* the platform tag of the policy table's row for a system and a machine
RowTag(system, machine) ==
    CASE Lower(system) = "darwin" ->
            IF Lower(machine) \in {"arm64", "aarch64"} THEN "darwin-arm64" ELSE "darwin-x64"
      [] Lower(system) = "linux" ->
            IF Lower(machine) = "aarch64" THEN "linux-arm64" ELSE "linux-x64"
      [] Lower(system) = "windows" -> "win-x64"

\* the directory of the cache a path lies in
CacheDirOf(path) == path[Len(node_dir_path) + 1]

\* C23: the cache location of a runtime is a function of version, system and
\* machine only, distinct versions have distinct cache directories, and after
\* any sequence of acquisitions a cache hit for a version returns an
\* executable that was written for that version, never one downloaded for
\* another.
C23_CacheKeyedByVersion ==
    [][(CalledEnsure /\ ret'.val.kind = "Downloaded") =>
          /\ CacheDirOf(ret'.val.path) =
                "node-v" \o nm.node_version \o "-" \o RowTag(host.system, host.machine)
          /\ \A w \in Versions \ {nm.node_version}, s \in Systems \ {"FreeBSD"},
                m \in Machines :
                CacheDirOf(ret'.val.path) # "node-v" \o w \o "-" \o RowTag(s, m)
          /\ cache'.files[ret'.val.path].version = nm.node_version]_vars

\* a cache hit for one version while the cache also holds the executable
\* downloaded for another
C23_Witness ==
    /\ ReturnedFromEnsure
    /\ ret.val.kind = "Downloaded"
    /\ eff.net = 0
    /\ cache.files[ret.val.path].version = nm.node_version
    /\ \E q \in DOMAIN cache.files :
          /\ cache.files[q].version # nm.node_version
          /\ q[Len(q)] \in {"node", "node.exe"}

DownloadFailed == Raise("URLError", "download failed")
\* the archive the manager downloads to
ExpectedArchive == Join(node_dir_path, ArchiveBasename(HostRow.node_url))

\* C30: a failed download reaches the caller as the failure, after one request
\* and with no handle, and leaves no executable in the cache; the next call
\* after it is not a cache hit and asks the network again.
C30_DownloadFailurePropagates ==
    [][CalledEnsure =>
          /\ ret'.val = DownloadFailed =>
                /\ eff'.net = 1
                /\ eff'.extracted = 0
                /\ ~InCache(cache', ExpectedExecutable)
          /\ (ReturnedFromEnsure /\ ret.val = DownloadFailed) =>
                /\ eff'.net = 1
                /\ Notices(eff'.log) = {}]_vars

\* a download failed after it had opened the archive file: the incomplete
\* archive is in the cache, the executable is not
C30_Witness ==
    /\ ReturnedFromEnsure
    /\ ret.val = DownloadFailed
    /\ eff.net = 1
    /\ InCache(cache, ExpectedArchive)
    /\ ~cache.files[ExpectedArchive].whole
    /\ ~InCache(cache, ExpectedExecutable)

\* what a call did of the four steps of a download, in their order: the
\* request, the extraction, the removal of the archive, the chmod
StepsDone(e) == <<e.net, e.extracted, e.removed, e.chmods>>
\* the steps of a download that went through on the host
AllSteps == <<1, 1, 1, IF Lower(host.system) = "windows" THEN 0 ELSE 1>>

\* C35: a call that misses the cache downloads, extracts, removes the archive
\* and sets the execute bits (not on Windows), in this order: a call that
\* stops at a step has done the steps before it and none after it. A call
\* that returns a Downloaded handle after a miss has done all of them, and
\* the archive is no longer in the cache.
C35_DownloadStepsInOrder ==
    [][(CalledEnsure /\ eff'.net > 0) =>
          /\ ~InCache(cache, ExpectedExecutable)
          /\ StepsDone(eff') \in {<<1, 0, 0, 0>>, <<1, 1, 0, 0>>, AllSteps}
          /\ ret'.val.kind = "Downloaded" <=> StepsDone(eff') = AllSteps
          /\ StepsDone(eff') = <<1, 1, 0, 0>> => InCache(cache', ExpectedArchive)
          /\ ret'.val.kind = "Downloaded" =>
                /\ ret'.val.path = ExpectedExecutable
                /\ ~InCache(cache', ExpectedArchive)
                /\ InCache(cache', ExpectedExecutable)
                /\ cache'.files[ExpectedExecutable].whole]_vars

\* a download on Linux went through: the four steps are done, the handle is
\* returned, the executable is in the cache and the archive is not
C35_Witness ==
    /\ ReturnedFromEnsure
    /\ host.system = "Linux"
    /\ ret.val.kind = "Downloaded"
    /\ StepsDone(eff) = <<1, 1, 1, 1>>
    /\ IsExecutable(host.system, cache, ExpectedExecutable)
    /\ ~InCache(cache, ExpectedArchive)

----------------------------------------------------------------------------
(* Claims about the TailwindCommand, under SpecTw.                         *)

ScaffoldPaths == {tw.input_css_path, tw.config_js_path}
\* the default content of a scaffold file
DefaultContent(p) ==
    IF p = tw.input_css_path THEN input_css_content ELSE config_content(tw.content_path, tw.theme_config)
\* this step is a call of the writer of scaffold file p
CalledWriter(p) ==
    /\ ret'.op = (IF p = tw.input_css_path THEN "create_default_input_tailwindcss"
                  ELSE "create_default_tailwindcss_config")
    /\ vars' # vars
CalledInit == ret'.op = "init" /\ vars' # vars
CalledBuild == ret'.op = "build" /\ vars' # vars
\* the subprocess of the last call ran and exited nonzero
ExitedNonzero(e) ==
    /\ Len(e.runs) = 1
    /\ ~e.runs[1].raised
    /\ e.runs[1].returncode # 0

C9_BuildFailureRaises ==
    [][(CalledBuild /\ ExitedNonzero(eff'))
       => /\ ret'.val.kind = "raise"
          /\ ret'.val.message = eff'.runs[1].stderr
          /\ fs'[tw.output_css_path] = fs[tw.output_css_path]]_vars

(* C10, as stated: when there is no package.json and the `npm init -y` run *)
(* by init() exits nonzero, init() raises to its caller an error that      *)
(* carries the captured stderr.                                            *)
C10_InitFailureRaises ==
    (ret.op = "init" /\ ExitedNonzero(eff))
        => /\ ret.val.kind = "raise"
           /\ ret.val.message = eff.runs[1].stderr

CalledInstall == ret'.op = "install" /\ vars' # vars
CalledWatch == ret'.op = "watch" /\ vars' # vars
CalledClean == ret'.op = "clean" /\ vars' # vars
\* the last call probed, and ran the install, which exited nonzero
InstallExitedNonzero(e) ==
    /\ Len(e.runs) = 2
    /\ ~e.runs[1].raised /\ e.runs[1].returncode # 0
    /\ ~e.runs[2].raised /\ e.runs[2].returncode # 0

(* C11, as stated: when the probe fails and the `npm install` run by       *)
(* install() exits nonzero, install() raises to its caller an error that   *)
(* carries the captured stderr.                                            *)
C11_InstallFailureRaises ==
    (ret.op = "install" /\ InstallExitedNonzero(eff))
        => /\ ret.val.kind = "raise"
           /\ ret.val.message = eff.runs[2].stderr

\* the toolchain versions a session may be for
ToolchainVersions == {"3", "4"}
\* the packages an install request names: the words after -D
PackagesNamed(cmd) ==
    LET d == CHOOSE i \in 1..Len(cmd) : cmd[i] = Arg("-D")
    IN {cmd[i][1] : i \in (d + 1)..Len(cmd)}

(* C12, as stated: the install request of install() is selected by the     *)
(* toolchain version: for version 4 it names two packages, the engine and  *)
(* the CLI front-end @tailwindcss/cli, and for version 3 exactly one.      *)
(* install() reads no version, so its one request is the request for each  *)
(* version.                                                                *)
C12_InstallByVersion ==
    (ret.op = "install" /\ Len(eff.runs) = 2)
        => \A v \in ToolchainVersions :
              LET named == PackagesNamed(eff.runs[2].cmd)
              IN IF v = "4"
                 THEN Cardinality(named) = 2 /\ "@tailwindcss/cli" \in named
                 ELSE Cardinality(named) = 1

(* C13, as stated: an interrupt delivered while the watch subprocess runs  *)
(* makes watch() return normally, and any other exception raised when      *)
(* launching or running the subprocess reaches the caller of watch().      *)
C13_WatchInterruptAndFailure ==
    ret.op = "watch"
        => /\ WasInterrupted(eff.runs[1]) => ret.val = Self
           /\ (eff.runs[1].raised /\ ~WasInterrupted(eff.runs[1]))
                 => ret.val.kind = "raise"

\* the warnings of the last call
Warnings(e) == {i \in 1..Len(e.log) : e.log[i][1] = "warning"}
CleanTargetSet == {clean_targets[i] : i \in 1..Len(clean_targets)}

(* C14: clean() treats its five targets independently: whichever subset of *)
(* the existing targets fails to be removed, each failure is logged as one *)
(* warning and leaves its target as it was, every other target is absent   *)
(* afterwards, nothing else is touched and clean() returns normally.       *)
C14_CleanIndependent ==
    [][CalledClean =>
          /\ \A p \in CleanTargetSet :
                IF p \in eff'.failed
                THEN /\ fs'[p] = fs[p]
                     /\ \E i \in Warnings(eff') :
                           eff'.log[i][2] = "Warning: Could not remove " \o p
                ELSE ~Exists(fs', p)
          /\ Cardinality(Warnings(eff')) = Cardinality(eff'.failed)
          /\ eff'.failed \subseteq CleanExisting(fs)
          /\ \A p \in WorkPaths \ CleanTargetSet : fs'[p] = fs[p]
          /\ ret'.val = Self]_vars

\* clean() has returned after the first and the last of its five targets
\* failed to be removed and the three between them were removed
C14_Witness ==
    /\ ret.op = "clean"
    /\ eff.failed = {tw.config_js_path, NodeModules}
    /\ eff.removed = 3
    /\ Exists(fs, tw.config_js_path) /\ Exists(fs, NodeModules)
    /\ ~Exists(fs, PackageJson) /\ ~Exists(fs, PackageLock)
    /\ ~Exists(fs, tw.input_css_path)

\* the lines a stylesheet holds
Holds(data, line) == \E i \in 1..Len(data) : data[i] = line
\* the three at-rule directives of version 3 and the import directive of
\* version 4
V3Directives == {"@tailwind base;", "@tailwind components;", "@tailwind utilities;"}
V4Import == "@import \"tailwindcss\";"

(* C27, as stated: the default input stylesheet is selected by the          *)
(* toolchain version alone and the two templates exclude each other: for    *)
(* version 3 it holds exactly the three at-rule directives and no import    *)
(* directive, for version 4 the import directive and none of the three.     *)
(* create_default_input_tailwindcss reads no version, so the one stylesheet *)
(* it writes is the stylesheet for each version.                            *)
C27_InputByVersion ==
    ret.op = "create_default_input_tailwindcss"
        => \A v \in ToolchainVersions :
              LET data == fs[tw.input_css_path].data
              IN IF v = "4"
                 THEN /\ Holds(data, V4Import)
                      /\ \A d \in V3Directives : ~Holds(data, d)
                 ELSE /\ {data[i] : i \in 1..Len(data)} = V3Directives
                      /\ ~Holds(data, V4Import)

\* C31: clean() on a working directory that holds none of its five targets
\* returns normally, removes nothing, changes nothing and logs no warning.
C31_CleanOfNothing ==
    [][(CalledClean /\ CleanExisting(fs) = {}) =>
          /\ ret'.val = Self
          /\ fs' = fs
          /\ eff'.removed = 0
          /\ eff'.failed = {}
          /\ Warnings(eff') = {}
          /\ eff'.log = <<<<"info", "Cleaning up generated files...">>,
                          <<"info", "Cleanup completed.">>>>]_vars

\* clean() has returned from a directory without any of its targets, in which
\* it removed nothing and no removal failed
C31_Witness ==
    /\ ret.op = "clean"
    /\ ret.val = Self
    /\ CleanExisting(fs) = {}
    /\ eff.removed = 0
    /\ eff.failed = {}
    /\ Len(eff.log) = 2

\* the argument vector has the word w
HasWord(cmd, w) == \E i \in 1..Len(cmd) : cmd[i] = Arg(w)
\* the compiler's help subcommand: ... tailwindcss --help
IsProbe(cmd) ==
    /\ Len(cmd) >= 3
    /\ SubSeq(cmd, Len(cmd) - 1, Len(cmd)) = <<Arg("tailwindcss"), Arg("--help")>>
\* the install commands among the runs of a call
InstallRuns(e) == {i \in 1..Len(e.runs) : HasWord(e.runs[i].cmd, "install")}

OutputApart ==
    tw.output_css_path \notin {tw.input_css_path, tw.config_js_path, PackageJson, PackageLock}

\* C36 as stated: whenever the output path differs from the input,
\* configuration, manifest and lockfile paths, clean() leaves the output
\* stylesheet as it was.
C36_AsStated ==
    [][(CalledClean /\ OutputApart) =>
          fs'[tw.output_css_path] = fs[tw.output_css_path]]_vars

\* C36: whenever the output path differs from the input, configuration,
\* manifest and lockfile paths and does not lie inside the dependencies
\* directory, clean() leaves the output stylesheet as it was, whichever
\* removals fail; a stylesheet that a build wrote is still there after it.
C36_CleanKeepsOutput ==
    [][(CalledClean /\ OutputApart /\ ~Inside(tw.output_css_path, NodeModules)) =>
          fs'[tw.output_css_path] = fs[tw.output_css_path]]_vars

\* clean() has removed all five of its targets and the stylesheet the
\* compiler wrote is still in the working directory
C36_Witness ==
    /\ ret.op = "clean"
    /\ eff.removed = 5
    /\ tw.output_css_path = OutputCss
    /\ Exists(fs, tw.output_css_path)
    /\ fs[tw.output_css_path].data = <<"compiled">>

----------------------------------------------------------------------------
(* Claims about a run of the plugin or of the CLI, under SpecRun.           *)

\* this step of the run attempts `step`
Attempts(step) == job'.steps = Append(job.steps, step)
\* the run has been through `step`
Past(j, step) == \E i \in 1..Len(j.steps) : j.steps[i] = step

\* C15: in one run the steps happen in the order init (the scaffold files
\* and the manifest), then install, then build or watch: install is never
\* attempted before the scaffold step has finished, and build and watch are
\* never attempted before install has finished.
C15_InitInstallBuild ==
    [][/\ Attempts("install") => Past(job, "scaffold")
       /\ Attempts("build") => Past(job, "install") /\ Past(job, "scaffold")
       /\ Attempts("watch") => Past(job, "install") /\ Past(job, "scaffold")]_vars

\* how many times the run has been through `step`
Times(j, step) == Cardinality({i \in 1..Len(j.steps) : j.steps[i] = step})
\* this step is one of a run
RunStep == job.pc # "idle" /\ job'.steps # job.steps
\* this step ends a run
RunEnds == job.pc # "idle" /\ job'.pc = "idle"
\* the build's subprocess of the run ran to an exit, whatever its status
BuildExited(j) == Past(j, "build") /\ j.failed # "build"

\* C16 as stated: a build run that has ended has invoked clean exactly once
\* if the clean-after-build flag is true and never if it is false.
C16_AsStated ==
    (job.pc = "idle" /\ job.outcome = "returned" /\ job.ctx # "cli_watch")
        => Times(job, "clean") = (IF job.clean_after THEN 1 ELSE 0)

\* C16: in a build run whose build subprocess ran to an exit, whatever its
\* status, clean is invoked exactly once, right after the build step, when
\* the clean-after-build flag is true; a run cut short before that invokes no
\* clean; and with the flag false clean is never invoked and no step of the
\* run removes a file.
C16_CleanAfterBuild ==
    [][/\ RunEnds =>
             /\ Times(job', "clean") =
                   (IF job.clean_after /\ BuildExited(job') THEN 1 ELSE 0)
             /\ Past(job', "clean") =>
                   /\ job'.steps[Len(job'.steps)] = "clean"
                   /\ job'.steps[Len(job'.steps) - 1] = "build"
       /\ (RunStep /\ ~job.clean_after) =>
             /\ ~Attempts("clean")
             /\ \A p \in WorkPaths : Exists(fs, p) => Exists(fs', p)]_vars

\* a build run with the flag set has compiled and then cleaned
C16_Witness ==
    /\ job.pc = "idle" /\ job.outcome = "returned" /\ job.clean_after
    /\ job.ctx = "plugin"
    /\ job.steps = <<"node", "install", "scaffold", "build", "clean">>
    /\ Exists(fs, OutputCss) /\ ~Exists(fs, ConfigJs)

\* C17: on every trigger the build gate is evaluated afresh: if it says skip
\* (the output exists and is younger than the threshold), the trigger
\* acquires no runtime, writes no scaffold file, installs, builds and cleans
\* nothing; a trigger that finds the output aged past the threshold, or
\* gone, does run the build.
C17_GateOnEveryTrigger ==
    [][(job.pc = "idle" /\ job.ctx = "plugin" /\ job'.started = job.started + 1) =>
          IF should_skip_build(plugin, fs, now)
          THEN job'.pc = "idle" /\ job'.steps = <<>>
          ELSE job'.pc = "node"]_vars

\* the step is the build's subprocess exiting with a status other than 0
BuildExitsNonzero ==
    /\ Attempts("build")
    /\ ~eff'.runs[1].raised
    /\ eff'.runs[1].returncode # 0

\* C18: in the plugin, a failure of any step of the startup build (no
\* runtime, unsupported platform, download failure, install or build
\* failure, scaffold write error) is a warning and a normal return of the
\* trigger: nothing propagates to the host application, and the stylesheet
\* route goes on answering, with 404 when there is no output.
C18_PluginFailureIsWarning ==
    [][job.ctx = "plugin" =>
          /\ job'.outcome # "raised"
          /\ (RunStep /\ ret'.val.kind = "raise") =>
                /\ job'.pc = "idle" /\ job'.outcome = "returned"
                /\ job'.warnings = Append(job.warnings,
                       "Failed to build Tailwind CSS: " \o ret'.val.message)
          /\ BuildExitsNonzero =>
                job'.warnings = Append(job.warnings,
                       "Tailwind CSS build failed: " \o eff'.runs[1].stderr)
          /\ (ret'.op = "serve_tailwindcss" /\ ~Exists(fs, plugin.output_css_path)) =>
                ret'.val = Response(<<"CSS file not found">>, 404, "text/plain")]_vars

\* a run of the plugin failed at its scaffold step with one warning, and the
\* route then answered 404
C18_Witness ==
    /\ job.ctx = "plugin" /\ job.pc = "idle" /\ job.outcome = "returned"
    /\ job.failed = "scaffold"
    /\ job.warnings = <<"Failed to build Tailwind CSS: could not write">>
    /\ ret.op = "serve_tailwindcss"
    /\ ret.val.kind = "Response" /\ ret.val.status = 404

\* C19: the stylesheet route answers every request by the working directory
\* as it is at the request: the content of the output file with content type
\* text/css if the file exists, status 404 with a plain-text body if it does
\* not; it never raises and never repeats an earlier answer that no longer
\* fits.
C19_ServeByCurrentState ==
    [][ret'.op = "serve_tailwindcss" =>
          ret'.val = (IF Exists(fs, plugin.output_css_path)
                      THEN Response(fs[plugin.output_css_path].data, 200, "text/css")
                      ELSE Response(<<"CSS file not found">>, 404, "text/plain"))]_vars

\* the companion an argument vector of the run invokes: npm for the
\* install, npx for the probe, the build and the watch
CompanionOf(cmd) ==
    IF \E i \in 1..Len(cmd) : cmd[i] = Arg("install") THEN tw.npm_path ELSE tw.npx_path

\* the command-construction rule on one argument vector
FollowsRule(cmd) ==
    IF tw.node_path # <<>> /\ ~path_exists(CompanionOf(cmd))
    THEN Len(cmd) >= 2 /\ cmd[1] = tw.node_path /\ cmd[2] = CompanionOf(cmd)
    ELSE cmd[1] = CompanionOf(cmd)

\* C20: every argument vector a run hands to subprocess.run (the install
\* probe, the install, the build, the watch of the CLI) begins with the
\* runtime's path followed by the companion's path exactly when the runtime
\* is a downloaded one and the resolved companion path does not exist;
\* otherwise the companion's path is its first word.
C20_UniformCommandRule ==
    [][RunStep => \A i \in 1..Len(eff'.runs) : FollowsRule(eff'.runs[i].cmd)]_vars

\* the two places a companion of a downloaded runtime is looked for
SiblingCandidate(system, node_path, command) ==
    Join(Dirname(node_path), <<get_command_alias_by_platform(system, command)>>)
NestedCandidate(system, node_path, command) ==
    Join(Dirname(node_path), <<"bin", get_command_alias_by_platform(system, command)>>)

\* C21: for a downloaded runtime, npm_path and npx_path probe the directory
\* of the runtime executable first and its bin subdirectory second and return
\* the first candidate that exists; if neither exists they return the
\* candidate in the directory of the executable.
C21_CompanionResolution ==
    [][(Attempts("node") /\ ret'.val.kind = "Downloaded") =>
          \A command \in {"npm", "npx"} :
             LET sibling == SiblingCandidate(host.system, ret'.val.path, command)
                 nested == NestedCandidate(host.system, ret'.val.path, command)
                 got == IF command = "npm" THEN tw'.npm_path ELSE tw'.npx_path
             IN got = IF InCache(cache', sibling) THEN sibling
                      ELSE IF InCache(cache', nested) THEN nested
                      ELSE sibling]_vars


\* the scaffold files of the session, as a set
ScaffoldFiles == {clean_targets[i] : i \in 1..Len(clean_targets)}
\* this step is the build's subprocess of a build run running to an exit
BuildExits == job.pc = "build" /\ job'.failed # "build"
\* this step is the build's subprocess exiting nonzero
BuildFails ==
    BuildExits /\ Len(job'.warnings) = Len(job.warnings) + 1

\* C39 as stated: with the clean-after flag, clean follows the exit of the
\* build, zero or nonzero, and leaves no scaffold file; and the build of the
\* run after a cleaned one finds all five scaffold files there again.
C39_AsStated ==
    [][/\ (BuildExits /\ job.clean_after) => job'.pc = "clean"
       /\ (job.pc = "clean" /\ eff'.failed = {}) =>
             \A p \in ScaffoldFiles : ~Exists(fs', p)
       /\ (Attempts("build") /\ job.before \in {"cleaned", "cleaned_failed_build"}) =>
             \A p \in ScaffoldFiles : Exists(fs, p)]_vars

\* C39: with the clean-after flag, clean follows the exit of the build, zero
\* or nonzero, and leaves no scaffold file but one whose removal failed; the
\* build of the run after a cleaned one finds the configuration file and the
\* input stylesheet there again, and the manifest, the lockfile and the
\* dependencies directory too if the run's probe of the compiler failed.
C39_CleanAfterAnyExit ==
    [][/\ (BuildExits /\ job.clean_after) => job'.pc = "clean"
       /\ job.pc = "clean" =>
             \A p \in ScaffoldFiles \ eff'.failed : ~Exists(fs', p)
       /\ (Attempts("build") /\ job.before \in {"cleaned", "cleaned_failed_build"}) =>
             /\ Exists(fs, tw.config_js_path)
             /\ Exists(fs, tw.input_css_path)
       /\ (Attempts("install") /\ job.before \in {"cleaned", "cleaned_failed_build"}
             /\ Len(eff'.runs) = 2 /\ job'.failed = "none") =>
             \A p \in ScaffoldFiles \ {tw.config_js_path, tw.input_css_path} : Exists(fs', p)]_vars

\* the run after one that cleaned up after a failed build is at its build,
\* the scaffold files there again
C39_Witness ==
    /\ job.clean_after
    /\ job.before = "cleaned_failed_build"
    /\ job.pc = "build"
    /\ \A p \in ScaffoldFiles : Exists(fs, p)

----------------------------------------------------------------------------
(* Claims about the serializer and the configuration writer, under SpecJs.  *)

CalledDictToJsObject == ret'.op = "dict_to_js_object" /\ vars' # vars

\* the reference rendering of a value: one rule per type, the same for the
\* value of an entry and for the element of a sequence
RECURSIVE toSourceText(_, _)
RECURSIVE RenderValue(_, _, _)
RECURSIVE RenderElements(_, _, _)
RECURSIVE RenderEntries(_, _, _)
RenderValue(v, indent, in_sequence) ==
    CASE v.t = "dict" -> toSourceText(v, IF in_sequence THEN indent + 2 ELSE indent + 1)
      [] v.t = "str" -> <<"\"" \o v.s \o "\"">>
      [] v.t = "bool" -> <<IF v.b THEN "true" ELSE "false">>
      [] v.t = "int" -> <<ToString(v.n)>>
      [] v.t = "float" -> <<v.s>>
      [] v.t = "list" -> Cat(Cat(<<"[">>, RenderElements(v.items, 1, indent)), <<"]">>)
      [] OTHER -> <<"None">>
RenderElements(items, i, indent) ==
    IF i > Len(items) THEN <<"">>
    ELSE IF i = Len(items) THEN RenderValue(items[i], indent, TRUE)
    ELSE Cat(Cat(RenderValue(items[i], indent, TRUE), <<", ">>),
             RenderElements(items, i + 1, indent))
RenderEntries(d, i, indent) ==
    LET entry == Cat(<<indent_of(indent + 1) \o d.items[i][1] \o ": ">>,
                     RenderValue(d.items[i][2], indent, FALSE))
    IN IF i = Len(d.items) THEN entry
       ELSE Cat(entry, <<",">>) \o RenderEntries(d, i + 1, indent)
toSourceText(d, indent) ==
    IF Len(d.items) = 0 THEN <<"{}">>
    ELSE <<"{">> \o RenderEntries(d, 1, indent) \o <<indent_of(indent) \o "}">>

\* C24: dict_to_js_object equals the reference rendering on every nested
\* mapping of texts, numbers, booleans, sequences and mappings: {} for the
\* empty mapping, else one line per entry, key: value, indented two spaces
\* per nesting level, text double-quoted, booleans true/false, numbers as
\* decimal literals, sequences in element order, any other value (None) as
\* its own text.
C24_EqualsReference ==
    [][CalledDictToJsObject =>
          ret'.val.data = toSourceText(tw.theme_config, 0)]_vars

\* the theme has one entry, and its value is a sequence
OneSequence(d) == Len(d.items) = 1 /\ d.items[1][2].t = "list"

\* C25: every element of a sequence is rendered by the rules of a mapping's
\* value, recursively: an element that is a sequence as the bracketed,
\* comma-separated list of its rendered elements, an element that is a
\* mapping by recursion at indent+2.
C25_ElementsByTheSameRules ==
    [][(CalledDictToJsObject /\ OneSequence(tw.theme_config)) =>
          ret'.val.data =
             <<"{">>
             \o Cat(Cat(<<"  " \o tw.theme_config.items[1][1] \o ": [">>,
                        RenderElements(tw.theme_config.items[1][2].items, 1, 0)),
                    <<"]">>)
             \o <<"}">>]_vars

CalledConfigWriter == ret'.op = "create_default_tailwindcss_config" /\ vars' # vars

\* one double-quoted string per glob, in order, separated by a comma and a
\* space
RECURSIVE QuotedGlobs(_)
QuotedGlobs(globs) ==
    IF Len(globs) = 0 THEN ""
    ELSE QuotedGlobs(SubSeq(globs, 1, Len(globs) - 1))
         \o (IF Len(globs) > 1 THEN ", " ELSE "")
         \o "\"" \o globs[Len(globs)] \o "\""

\* C26: the configuration file written holds a content array with exactly
\* one double-quoted string per glob, in the input order and comma-separated;
\* a theme.extend field that is the serialized theme (the object literal of
\* dict_to_js_object, set four levels deep), or {} when no theme is given;
\* and an empty plugins array.
C26_ConfigFile ==
    [][CalledConfigWriter =>
          LET lines == fs'[tw.config_js_path].data
              n == Len(lines)
              extend == SubSeq(lines, 4, n - 3)
          IN /\ Exists(fs', tw.config_js_path)
             /\ n >= 7
             /\ SubSeq(lines, 1, 3) =
                   <<"module.exports = {",
                     "    content: [" \o QuotedGlobs(tw.content_path) \o "],",
                     "    theme: {">>
             /\ extend = (IF Len(tw.theme_config.items) = 0
                          THEN <<"        extend: {},">>
                          ELSE Cat(Cat(<<"        extend:     ">>,
                                       dict_to_js_object(tw.theme_config, 4)),
                                   <<",">>))
             /\ SubSeq(lines, n - 2, n) = <<"    },", "    plugins: [],", "}">>]_vars

\* a configuration file was written for two globs and a nested theme
C26_Witness ==
    /\ ret.op = "create_default_tailwindcss_config"
    /\ tw.content_path = <<"*.html", "*.js">>
    /\ tw.theme_config = PyDict(<<<<"colors", PyDict(<<<<"500", PyStr("#fff")>>>>)>>,
                                  <<"spacing", PyStr("1rem")>>>>)
    /\ Exists(fs, tw.config_js_path)
    /\ fs[tw.config_js_path].data =
          <<"module.exports = {",
            "    content: [\"*.html\", \"*.js\"],",
            "    theme: {",
            "        extend:     {",
            "          colors: {",
            "            500: \"#fff\"",
            "          },",
            "          spacing: \"1rem\"",
            "        },",
            "    },",
            "    plugins: [],",
            "}">>

\* The object literals of JavaScript, in the layout of the configuration
\* file and over the texts of the model. A property name is an identifier, a
\* numeric literal or a string literal; the body of a double-quoted string
\* literal holds no double quote, no backslash and no line break.
IdentifierNames == {"colors", "spacing", "brand", "list", "name", "fontFamily"}
NumericLiterals == {"500", "50", "42", "3.14", "7", "1", "2"}
StringBodies == {"#fff", "#eff6ff", "1rem", "a", "b", "dark", "1536px", "Inter",
                 "sans-serif", "colors", "primary-color", "2xl", "fontFamily"}
StringLiterals == {"\"" \o b \o "\"" : b \in StringBodies}
PropertyNames == IdentifierNames \cup NumericLiterals \cup StringLiterals
\* the expressions of one token: literals, and a name such as None
JsScalars == StringLiterals \cup NumericLiterals \cup {"true", "false", "null", "None"}
\* the array literals of up to two such elements
JsArrays ==
    {"[]"} \cup {"[" \o e \o "]" : e \in JsScalars}
    \cup {"[" \o e \o ", " \o f \o "]" : e \in JsScalars, f \in JsScalars}
\* the indents of the entries of a theme in the configuration file
Indents == 5..7
\* name: value on one line at indent n, with or without the comma after it
EntryLines ==
    [n \in Indents |-> [comma \in {"", ","} |->
        {indent_of(n) \o k \o ": " \o v \o comma :
            k \in PropertyNames, v \in JsScalars \cup JsArrays \cup {"{}"}}]]
\* name: { at indent n, and the lines that close it
OpenLines == [n \in Indents |-> {indent_of(n) \o k \o ": {" : k \in PropertyNames}]
CloseLines(n) == {indent_of(n) \o "}", indent_of(n) \o "},"}

\* the lines ls are the entries of an object literal at indent n: each entry
\* on one line, or a nested object from its opening line to the first closing
\* line at the same indent; every entry but the last is followed by a comma
RECURSIVE IsEntries(_, _)
IsEntries(ls, n) ==
    IF ls = <<>> THEN TRUE
    ELSE IF n \notin Indents THEN FALSE
    ELSE IF ls[1] \in OpenLines[n] THEN
        LET closes == {j \in 2..Len(ls) : ls[j] \in CloseLines(n)}
        IN /\ closes # {}
           /\ LET j == CHOOSE c \in closes : \A d \in closes : c <= d
              IN /\ IsEntries(SubSeq(ls, 2, j - 1), n + 1)
                 /\ j < Len(ls) => ls[j] = indent_of(n) \o "},"
                 /\ IsEntries(SubSeq(ls, j + 1, Len(ls)), n)
    ELSE
        /\ \/ ls[1] \in EntryLines[n][","]
           \/ Len(ls) = 1 /\ ls[1] \in EntryLines[n][""]
        /\ IsEntries(Tail(ls), n)

\* the lines of theme.extend in the configuration file are extend: followed
\* by an object literal
IsExtendLiteral(extend) ==
    \/ extend = <<"        extend: {},">>
    \/ /\ Len(extend) >= 2
       /\ extend[1] = "        extend:     {"
       /\ extend[Len(extend)] = indent_of(4) \o "},"
       /\ IsEntries(SubSeq(extend, 2, Len(extend) - 1), 5)

\* the sequences of the theme hold texts, numbers and booleans only
RECURSIVE FlatSequences(_)
FlatSequences(v) ==
    CASE v.t = "dict" -> \A i \in 1..Len(v.items) : FlatSequences(v.items[i][2])
      [] v.t = "list" -> \A i \in 1..Len(v.items) : v.items[i].t \notin {"dict", "list"}
      [] OTHER -> TRUE

\* C33: for every theme of texts, numbers, booleans, sequences of them and
\* nested mappings, whatever its keys and texts, the theme.extend of the
\* configuration file written is syntactically an object literal.
C33_ConfigIsObjectLiteral ==
    [][(CalledConfigWriter /\ FlatSequences(tw.theme_config)) =>
          LET lines == fs'[tw.config_js_path].data
          IN IsExtendLiteral(SubSeq(lines, 4, Len(lines) - 3))]_vars

----------------------------------------------------------------------------
(* Claims about npm_path and npx_path, under SpecPath.                      *)

\* this step ends a resolution that took the branch of a downloaded runtime
EndsDownloadedBranch == job.pc = "dirname" /\ job'.pc = "idle"
\* the path of the tool the session has
ToolPath(t, tool) == IF tool = "npm" THEN t.npm_path ELSE t.npx_path

\* C37: a resolution that took the branch of the downloaded runtime returns
\* the companion of that runtime and does not fail, whatever happens to node
\* on PATH between its steps.
C37_OneHandlePerResolution ==
    [][EndsDownloadedBranch =>
          /\ job'.outcome = "returned"
          /\ ToolPath(tw', job.ctx) =
                companion_path(cache', host.system, ExpectedExecutable, job.ctx)]_vars

----------------------------------------------------------------------------
(* Claims about two processes filling the cache, under SpecRace.           *)

\* process p returns a handle in this step
Returns(p) == procs[p].pc # "returned" /\ procs'[p].pc = "returned"
\* both processes are out of download_nodejs
BothEnded == \A p \in Procs : procs[p].pc \in {"returned", "raised"}
\* the runtime at its path: completely extracted and executable
RuntimeComplete ==
    /\ IsExecutable(host.system, cache, RaceExecutable)
    /\ cache.files[RaceExecutable].whole

\* C29: when two processes run ensure with download on an empty cache, under
\* every interleaving of their steps the cache ends with a completely
\* extracted, executable runtime at the deterministic path, and every handle a
\* process returns refers to an existing executable.
C29_RaceIsSafe ==
    [][/\ \A p \in Procs :
             Returns(p) => IsExecutable(host.system, cache', procs'[p].val.path)
       /\ BothEnded' => RuntimeComplete']_vars

----------------------------------------------------------------------------
(* Claims about the command line, under SpecCli.                            *)

\* this step is run() reading its arguments and calling the subcommand
CalledRun == job.pc = "idle" /\ job'.started = job.started + 1
\* the texts of the model that the JSON grammar rejects: an object left open,
\* a comma before the closing brace or bracket, a member without its colon,
\* a brace after the value, a closing brace alone
NotJson ==
    {<<"{", "\"colors\"", ":", "{", "\"primary\"", ":", "\"#ff0000\"", "}">>,
     <<"{", "\"colors\"", ":", "1", ",", "}">>,
     <<"{", "\"colors\"", "\"primary\"", "}">>,
     <<"{", "\"colors\"", ":", "1", "}", "}">>,
     <<"{", "\"colors\"", ":", "[", "1", ",", "]", "}">>,
     <<"}">>}
\* the command line gives a theme that is not JSON
MalformedTheme == job.theme_arg.given /\ job.theme_arg.text \in NotJson
\* the step the method of a subcommand starts with
FirstStep(c) == IF c = "cli_clean" THEN "clean" ELSE "node"

\* C32: with a theme argument that is not valid JSON, run() warns once, goes
\* on with the empty theme and calls the method of the subcommand with the
\* other arguments as given; a configuration file the run then writes carries
\* the empty theme.
C32_MalformedThemeIsWarning ==
    [][/\ (CalledRun /\ MalformedTheme) =>
             /\ job'.warnings = <<"Invalid JSON for theme config">>
             /\ tw'.theme_config = PyDict(<<>>)
             /\ job'.outcome = "running"
             /\ job'.pc = FirstStep(job.ctx)
             /\ job'.ctx = job.ctx
             /\ job'.download_node = job.download_node
             /\ job'.clean_after = job.clean_after
       /\ (MalformedTheme /\ ret'.op = "create_default" /\ vars' # vars
             /\ ~Exists(fs, tw.config_js_path)) =>
             fs'[tw.config_js_path].data = config_content(tw.content_path, PyDict(<<>>))]_vars

\* a build of the CLI given a theme that is not JSON has warned about it and
\* has gone on to write the configuration file and to run the compiler
C32_Witness ==
    /\ MalformedTheme
    /\ job.ctx = "cli_build"
    /\ Len(job.warnings) >= 1
    /\ job.warnings[1] = "Invalid JSON for theme config"
    /\ \E i \in 1..Len(job.steps) : job.steps[i] = "build"
    /\ tw.theme_config = PyDict(<<>>)
    /\ Exists(fs, tw.config_js_path)
    /\ fs[tw.config_js_path].data = config_content(tw.content_path, PyDict(<<>>))

\* C38: the clean subcommand goes straight to the removal: no step of it
\* runs a command, fetches anything or touches the store of runtimes, and it
\* returns with every generated file it could remove gone, whether or not
\* node is on PATH or may be downloaded.
C38_CleanNeedsNoRuntime ==
    [][job.ctx = "cli_clean" =>
          /\ cache' = cache
          /\ nm' = nm
          /\ eff'.net = 0
          /\ eff'.runs = <<>>
          /\ job'.outcome # "raised"
          /\ job'.failed = "none"
          /\ CalledRun => job'.pc = "clean"
          /\ job.pc = "clean" =>
                /\ job'.pc = "idle"
                /\ job'.outcome = "returned"
                /\ job'.steps = <<"clean">>
                /\ \A p \in CleanExisting(fs) \ eff'.failed : ~Exists(fs', p)]_vars

\* clean has returned without node on PATH and with the download off, and
\* has removed generated files
C38_Witness ==
    /\ job.ctx = "cli_clean"
    /\ host.node = "none"
    /\ ~job.download_node
    /\ job.pc = "idle"
    /\ job.outcome = "returned"
    /\ job.steps = <<"clean">>
    /\ eff.removed >= 4
    /\ CleanExisting(fs) = {}

====
